---- MODULE Spec2Model ----
(***************************************************************************)
(* A model of the scripts of the research-report generator:                *)
(* generate_pdf.py (the markdown-to-HTML transformation and the report),   *)
(* create_diagram.py, fetch_images.py and download_images.py (the calls    *)
(* that write files).                                                      *)
(*                                                                         *)
(* A text is a sequence of characters.  A printable ASCII character, a     *)
(* tab, a line feed, a form feed and a carriage return are one-character   *)
(* strings ("\n" is the line break); every other character is written as   *)
(* its code point in at least four hexadecimal digits, "U+76EE".  The      *)
(* character classes of Python (\w, \s, \d, str.lower) are tables of code  *)
(* points.  Every regular expression of the source is an operator that     *)
(* computes what Python's `re` computes on such a sequence (leftmost       *)
(* match, greedy quantifiers, non-overlapping scans).                      *)
(***************************************************************************)
EXTENDS Integers, Sequences, FiniteSets, TLC

VARIABLES
    pc,          \* position of the run: which call has returned
    markdown,    \* the input text of the call
    exists,      \* the file system: [absolute path -> "dir" or what the
                 \* file holds]
    base_path,   \* the base_path of the call, <<>> for None
    toc,         \* what generate_toc returned: [toc_md, text, heads]
    toc2,        \* what generate_toc returned on its own rewritten text
    page,        \* what markdown_to_html decided: [has_nav, body_in]
    conv,        \* what markdown_to_html_internal computed, stage by stage
    html,        \* what markdown_to_html_internal returned, with every stage
    report,      \* what generate_html_report returned, part by part
    calls,       \* the markdown_to_html calls in progress, each with the
                 \* locals of its frame
    list_pass,   \* the locals of the list loop of lines 312-354
    raised,      \* the exception that ended the call, "" for none
    returned     \* what the last call that writes files returned, None
                 \* once the report is built

vars ==
    <<pc, markdown, exists, base_path, toc, toc2, page, conv, html, report,
      calls, list_pass, raised, returned>>

-----------------------------------------------------------------------------
(* Characters and character classes.                                       *)

NL == "\n"

\* The literal pieces of text the code writes, each under the name the model
\* uses for it and with the source line that holds it.
Html ==
    [ \* line 130
      DivOpen |-> <<"<","d","i","v"," ","c","l","a","s","s","=","\"","i",
          "m","a","g","e","-","c","o","l","u","m","n","s","\"",">">>,
      \* line 141
      DivClose |-> <<"<","/","d","i","v",">">>,
      \* line 140
      ColItemA |-> <<"<","f","i","g","u","r","e"," ","c","l","a","s","s",
          "=","\"","c","o","l","u","m","n","-","i","t","e","m","\"",">","<",
          "i","m","g"," ","s","r","c","=","\"">>,
      \* line 140
      ImgAltAttr |-> <<"\""," ","a","l","t","=","\"">>,
      \* line 140
      ColItemB |-> <<"\"","/",">","<","f","i","g","c","a","p","t","i","o",
          "n",">">>,
      \* line 140
      FigClose |-> <<"<","/","f","i","g","c","a","p","t","i","o","n",">",
          "<","/","f","i","g","u","r","e",">">>,
      \* line 201
      FigureA |-> <<"<","f","i","g","u","r","e",">","<","i","m","g"," ","s",
          "r","c","=","\"">>,
      \* line 201
      FigureB |-> <<"\""," ","s","t","y","l","e","=","\"","m","a","x","-",
          "w","i","d","t","h",":","1","0","0","%",";"," ","h","e","i","g",
          "h","t",":","a","u","t","o",";","\"","/",">","<","f","i","g","c",
          "a","p","t","i","o","n",">">>,
      \* line 204
      MissingA |-> <<"<","f","i","g","u","r","e"," ","c","l","a","s","s",
          "=","\"","m","i","s","s","i","n","g","-","i","m","a","g","e","\"",
          ">","<","d","i","v"," ","s","t","y","l","e","=","\"","b","a","c",
          "k","g","r","o","u","n","d",":","#","f","0","f","0","f","0",";",
          " ","p","a","d","d","i","n","g",":","4","0","p","x",";"," ","t",
          "e","x","t","-","a","l","i","g","n",":","c","e","n","t","e","r",
          ";"," ","b","o","r","d","e","r",":","1","p","x"," ","d","a","s",
          "h","e","d"," ","#","c","c","c",";","\"",">","[","I","m","a","g",
          "e",":"," ">>,
      \* line 204
      MissingB |-> <<"]","<","/","d","i","v",">","<","/","f","i","g","u",
          "r","e",">">>,
      \* line 144
      ColsWord |-> <<"c","o","l","u","m","n","s">>,
      \* line 144
      EndColsWord |-> <<"/","c","o","l","u","m","n","s">>,
      \* line 97
      TocHead |-> <<"#","#"," ","U+76EE","U+6B21","\n","\n">>,
      \* line 97
      TocFoot |-> <<"\n","\n","-","-","-","\n","\n">>,
      \* line 222
      BqOpen |-> <<"<","b","l","o","c","k","q","u","o","t","e",">">>,
      \* line 222
      BqClose |-> <<"<","/","b","l","o","c","k","q","u","o","t","e",">">>,
      \* line 222
      BrTag |-> <<"<","b","r","/",">">>,
      \* line 215
      QuoteMark |-> <<">"," ">>,
      \* lines 238-239
      StrongOpen |-> <<"<","s","t","r","o","n","g",">">>,
      \* lines 238-239
      StrongClose |-> <<"<","/","s","t","r","o","n","g",">">>,
      \* lines 238-240
      EmOpen |-> <<"<","e","m",">">>,
      \* lines 238-240
      EmClose |-> <<"<","/","e","m",">">>,
      \* line 243
      LinkA |-> <<"<","a"," ","h","r","e","f","=","\"">>,
      \* line 243
      LinkB |-> <<"\"",">">>,
      \* line 243
      LinkC |-> <<"<","/","a",">">>,
      \* line 246
      HrTag |-> <<"<","h","r","/",">">>,
      \* line 254
      TableOpen |-> <<"<","t","a","b","l","e",">">>,
      \* line 262
      TheadOpen |-> <<"<","t","h","e","a","d",">","<","t","r",">">>,
      \* line 265
      TheadClose |-> <<"<","/","t","r",">","<","/","t","h","e","a","d",">">>,
      \* line 268
      TbodyOpen |-> <<"<","t","b","o","d","y",">">>,
      \* line 278
      TableClose |-> <<"<","/","t","b","o","d","y",">","<","/","t","a","b",
          "l","e",">">>,
      \* line 274
      TrOpen |-> <<"<","t","r",">">>,
      \* line 277
      TrClose |-> <<"<","/","t","r",">">>,
      \* line 264
      ThOpen |-> <<"<","t","h",">">>,
      \* line 264
      ThClose |-> <<"<","/","t","h",">">>,
      \* line 276
      TdOpen |-> <<"<","t","d",">">>,
      \* line 276
      TdClose |-> <<"<","/","t","d",">">>,
      \* line 326
      UlOpen |-> <<"<","u","l",">">>,
      \* line 333
      UlClose |-> <<"<","/","u","l",">">>,
      \* line 336
      OlOpen |-> <<"<","o","l",">">>,
      \* line 323
      OlClose |-> <<"<","/","o","l",">">>,
      \* line 329
      LiOpen |-> <<"<","l","i",">">>,
      \* line 329
      LiClose |-> <<"<","/","l","i",">">>,
      \* line 371
      POpen |-> <<"<","p",">">>,
      \* line 371
      PClose |-> <<"<","/","p",">">>,
      \* line 398
      FiguresOpen |-> <<"<","d","i","v"," ","c","l","a","s","s","=","\"",
          "i","m","a","g","e","s","-","s","e","c","t","i","o","n","\"",">",
          "<","h","2",">","F","i","g","u","r","e","s","<","/","h","2",">">>,
      \* line 415
      DiagramsOpen |-> <<"<","d","i","v"," ","c","l","a","s","s","=","\"",
          "d","i","a","g","r","a","m","s","-","s","e","c","t","i","o","n",
          "\"",">","<","h","2",">","D","i","a","g","r","a","m","s","<","/",
          "h","2",">">>,
      \* line 407
      FigureWord |-> <<"F","i","g","u","r","e">>,
      \* line 424
      DiagramWord |-> <<"D","i","a","g","r","a","m">>,
      \* line 111
      NavOpen |-> <<"<","n","a","v"," ","c","l","a","s","s","=","\"","t",
          "o","c","\"",">">>,
      \* line 111
      NavClose |-> <<"<","/","n","a","v",">">>,
      \* line 390
      DefaultAuthor |-> <<"R","e","s","e","a","r","c","h"," ","R","e","p",
          "o","r","t"," ","G","e","n","e","r","a","t","o","r">> ]

\* chr(32) .. chr(126), the printable ASCII characters; the grave accent,
\* which a string of this language cannot hold, is written as its code
\* point.
Ascii ==
    <<" ","!","\"","#","$","%","&","'","(",")","*","+",",","-",".","/",
      "0","1","2","3","4","5","6","7","8","9",":",";","<","=",">","?",
      "@","A","B","C","D","E","F","G","H","I","J","K","L","M","N","O",
      "P","Q","R","S","T","U","V","W","X","Y","Z","[","\\","]","^","_",
      "U+0060","a","b","c","d","e","f","g","h","i","j","k","l","m","n","o",
      "p","q","r","s","t","u","v","w","x","y","z","{","|","}","~">>

Digits == <<"0","1","2","3","4","5","6","7","8","9">>

Range(f) == {f[i] : i \in DOMAIN f}

\* The code point n in hexadecimal, on four digits at least.
RECURSIVE HexStr(_, _)
HexStr(n, width) ==
    IF n = 0 /\ width <= 0 THEN ""
    ELSE HexStr(n \div 16, width - 1)
             \o <<"0","1","2","3","4","5","6","7","8","9","A","B","C","D","E",
                  "F">>[(n % 16) + 1]

\* chr(n) as a character of a model text.
Chr(n) ==
    IF n \in 32..126 THEN Ascii[n - 31]
    ELSE IF n = 9 THEN "\t"
    ELSE IF n = 10 THEN "\n"
    ELSE IF n = 12 THEN "\f"
    ELSE IF n = 13 THEN "\r"
    ELSE "U+" \o HexStr(n, 4)

\* The characters of a table of ranges of code points.
CodeSet(codes) == {Chr(n) : n \in UNION {r[1]..r[2] : r \in Range(codes)}}

\* The code points Python's \w matches in a str pattern (lines 75 and
\* fetch_images.py 16), as ranges <<first, last>>.
WordCodes ==
    << <<48,57>>, <<65,90>>, <<95,95>>, <<97,122>>, <<170,170>>,
       <<178,179>>, <<181,181>>, <<185,186>>, <<188,190>>, <<192,214>>,
       <<216,246>>, <<248,705>>, <<710,721>>, <<736,740>>, <<748,748>>,
       <<750,750>>, <<880,884>>, <<886,887>>, <<890,893>>, <<895,895>>,
       <<902,902>>, <<904,906>>, <<908,908>>, <<910,929>>, <<931,1013>>,
       <<1015,1153>>, <<1162,1327>>, <<1329,1366>>, <<1369,1369>>,
       <<1376,1416>>, <<1488,1514>>, <<1519,1522>>, <<1568,1610>>,
       <<1632,1641>>, <<1646,1647>>, <<1649,1747>>, <<1749,1749>>,
       <<1765,1766>>, <<1774,1788>>, <<1791,1791>>, <<1808,1808>>,
       <<1810,1839>>, <<1869,1957>>, <<1969,1969>>, <<1984,2026>>,
       <<2036,2037>>, <<2042,2042>>, <<2048,2069>>, <<2074,2074>>,
       <<2084,2084>>, <<2088,2088>>, <<2112,2136>>, <<2144,2154>>,
       <<2160,2183>>, <<2185,2190>>, <<2208,2249>>, <<2308,2361>>,
       <<2365,2365>>, <<2384,2384>>, <<2392,2401>>, <<2406,2415>>,
       <<2417,2432>>, <<2437,2444>>, <<2447,2448>>, <<2451,2472>>,
       <<2474,2480>>, <<2482,2482>>, <<2486,2489>>, <<2493,2493>>,
       <<2510,2510>>, <<2524,2525>>, <<2527,2529>>, <<2534,2545>>,
       <<2548,2553>>, <<2556,2556>>, <<2565,2570>>, <<2575,2576>>,
       <<2579,2600>>, <<2602,2608>>, <<2610,2611>>, <<2613,2614>>,
       <<2616,2617>>, <<2649,2652>>, <<2654,2654>>, <<2662,2671>>,
       <<2674,2676>>, <<2693,2701>>, <<2703,2705>>, <<2707,2728>>,
       <<2730,2736>>, <<2738,2739>>, <<2741,2745>>, <<2749,2749>>,
       <<2768,2768>>, <<2784,2785>>, <<2790,2799>>, <<2809,2809>>,
       <<2821,2828>>, <<2831,2832>>, <<2835,2856>>, <<2858,2864>>,
       <<2866,2867>>, <<2869,2873>>, <<2877,2877>>, <<2908,2909>>,
       <<2911,2913>>, <<2918,2927>>, <<2929,2935>>, <<2947,2947>>,
       <<2949,2954>>, <<2958,2960>>, <<2962,2965>>, <<2969,2970>>,
       <<2972,2972>>, <<2974,2975>>, <<2979,2980>>, <<2984,2986>>,
       <<2990,3001>>, <<3024,3024>>, <<3046,3058>>, <<3077,3084>>,
       <<3086,3088>>, <<3090,3112>>, <<3114,3129>>, <<3133,3133>>,
       <<3160,3162>>, <<3165,3165>>, <<3168,3169>>, <<3174,3183>>,
       <<3192,3198>>, <<3200,3200>>, <<3205,3212>>, <<3214,3216>>,
       <<3218,3240>>, <<3242,3251>>, <<3253,3257>>, <<3261,3261>>,
       <<3293,3294>>, <<3296,3297>>, <<3302,3311>>, <<3313,3314>>,
       <<3332,3340>>, <<3342,3344>>, <<3346,3386>>, <<3389,3389>>,
       <<3406,3406>>, <<3412,3414>>, <<3416,3425>>, <<3430,3448>>,
       <<3450,3455>>, <<3461,3478>>, <<3482,3505>>, <<3507,3515>>,
       <<3517,3517>>, <<3520,3526>>, <<3558,3567>>, <<3585,3632>>,
       <<3634,3635>>, <<3648,3654>>, <<3664,3673>>, <<3713,3714>>,
       <<3716,3716>>, <<3718,3722>>, <<3724,3747>>, <<3749,3749>>,
       <<3751,3760>>, <<3762,3763>>, <<3773,3773>>, <<3776,3780>>,
       <<3782,3782>>, <<3792,3801>>, <<3804,3807>>, <<3840,3840>>,
       <<3872,3891>>, <<3904,3911>>, <<3913,3948>>, <<3976,3980>>,
       <<4096,4138>>, <<4159,4169>>, <<4176,4181>>, <<4186,4189>>,
       <<4193,4193>>, <<4197,4198>>, <<4206,4208>>, <<4213,4225>>,
       <<4238,4238>>, <<4240,4249>>, <<4256,4293>>, <<4295,4295>>,
       <<4301,4301>>, <<4304,4346>>, <<4348,4680>>, <<4682,4685>>,
       <<4688,4694>>, <<4696,4696>>, <<4698,4701>>, <<4704,4744>>,
       <<4746,4749>>, <<4752,4784>>, <<4786,4789>>, <<4792,4798>>,
       <<4800,4800>>, <<4802,4805>>, <<4808,4822>>, <<4824,4880>>,
       <<4882,4885>>, <<4888,4954>>, <<4969,4988>>, <<4992,5007>>,
       <<5024,5109>>, <<5112,5117>>, <<5121,5740>>, <<5743,5759>>,
       <<5761,5786>>, <<5792,5866>>, <<5870,5880>>, <<5888,5905>>,
       <<5919,5937>>, <<5952,5969>>, <<5984,5996>>, <<5998,6000>>,
       <<6016,6067>>, <<6103,6103>>, <<6108,6108>>, <<6112,6121>>,
       <<6128,6137>>, <<6160,6169>>, <<6176,6264>>, <<6272,6276>>,
       <<6279,6312>>, <<6314,6314>>, <<6320,6389>>, <<6400,6430>>,
       <<6470,6509>>, <<6512,6516>>, <<6528,6571>>, <<6576,6601>>,
       <<6608,6618>>, <<6656,6678>>, <<6688,6740>>, <<6784,6793>>,
       <<6800,6809>>, <<6823,6823>>, <<6917,6963>>, <<6981,6988>>,
       <<6992,7001>>, <<7043,7072>>, <<7086,7141>>, <<7168,7203>>,
       <<7232,7241>>, <<7245,7293>>, <<7296,7304>>, <<7312,7354>>,
       <<7357,7359>>, <<7401,7404>>, <<7406,7411>>, <<7413,7414>>,
       <<7418,7418>>, <<7424,7615>>, <<7680,7957>>, <<7960,7965>>,
       <<7968,8005>>, <<8008,8013>>, <<8016,8023>>, <<8025,8025>>,
       <<8027,8027>>, <<8029,8029>>, <<8031,8061>>, <<8064,8116>>,
       <<8118,8124>>, <<8126,8126>>, <<8130,8132>>, <<8134,8140>>,
       <<8144,8147>>, <<8150,8155>>, <<8160,8172>>, <<8178,8180>>,
       <<8182,8188>>, <<8304,8305>>, <<8308,8313>>, <<8319,8329>>,
       <<8336,8348>>, <<8450,8450>>, <<8455,8455>>, <<8458,8467>>,
       <<8469,8469>>, <<8473,8477>>, <<8484,8484>>, <<8486,8486>>,
       <<8488,8488>>, <<8490,8493>>, <<8495,8505>>, <<8508,8511>>,
       <<8517,8521>>, <<8526,8526>>, <<8528,8585>>, <<9312,9371>>,
       <<9450,9471>>, <<10102,10131>>, <<11264,11492>>, <<11499,11502>>,
       <<11506,11507>>, <<11517,11517>>, <<11520,11557>>, <<11559,11559>>,
       <<11565,11565>>, <<11568,11623>>, <<11631,11631>>, <<11648,11670>>,
       <<11680,11686>>, <<11688,11694>>, <<11696,11702>>, <<11704,11710>>,
       <<11712,11718>>, <<11720,11726>>, <<11728,11734>>, <<11736,11742>>,
       <<11823,11823>>, <<12293,12295>>, <<12321,12329>>, <<12337,12341>>,
       <<12344,12348>>, <<12353,12438>>, <<12445,12447>>, <<12449,12538>>,
       <<12540,12543>>, <<12549,12591>>, <<12593,12686>>, <<12690,12693>>,
       <<12704,12735>>, <<12784,12799>>, <<12832,12841>>, <<12872,12879>>,
       <<12881,12895>>, <<12928,12937>>, <<12977,12991>>, <<13312,19903>>,
       <<19968,42124>>, <<42192,42237>>, <<42240,42508>>, <<42512,42539>>,
       <<42560,42606>>, <<42623,42653>>, <<42656,42735>>, <<42775,42783>>,
       <<42786,42888>>, <<42891,42954>>, <<42960,42961>>, <<42963,42963>>,
       <<42965,42969>>, <<42994,43009>>, <<43011,43013>>, <<43015,43018>>,
       <<43020,43042>>, <<43056,43061>>, <<43072,43123>>, <<43138,43187>>,
       <<43216,43225>>, <<43250,43255>>, <<43259,43259>>, <<43261,43262>>,
       <<43264,43301>>, <<43312,43334>>, <<43360,43388>>, <<43396,43442>>,
       <<43471,43481>>, <<43488,43492>>, <<43494,43518>>, <<43520,43560>>,
       <<43584,43586>>, <<43588,43595>>, <<43600,43609>>, <<43616,43638>>,
       <<43642,43642>>, <<43646,43695>>, <<43697,43697>>, <<43701,43702>>,
       <<43705,43709>>, <<43712,43712>>, <<43714,43714>>, <<43739,43741>>,
       <<43744,43754>>, <<43762,43764>>, <<43777,43782>>, <<43785,43790>>,
       <<43793,43798>>, <<43808,43814>>, <<43816,43822>>, <<43824,43866>>,
       <<43868,43881>>, <<43888,44002>>, <<44016,44025>>, <<44032,55203>>,
       <<55216,55238>>, <<55243,55291>>, <<63744,64109>>, <<64112,64217>>,
       <<64256,64262>>, <<64275,64279>>, <<64285,64285>>, <<64287,64296>>,
       <<64298,64310>>, <<64312,64316>>, <<64318,64318>>, <<64320,64321>>,
       <<64323,64324>>, <<64326,64433>>, <<64467,64829>>, <<64848,64911>>,
       <<64914,64967>>, <<65008,65019>>, <<65136,65140>>, <<65142,65276>>,
       <<65296,65305>>, <<65313,65338>>, <<65345,65370>>, <<65382,65470>>,
       <<65474,65479>>, <<65482,65487>>, <<65490,65495>>, <<65498,65500>>,
       <<65536,65547>>, <<65549,65574>>, <<65576,65594>>, <<65596,65597>>,
       <<65599,65613>>, <<65616,65629>>, <<65664,65786>>, <<65799,65843>>,
       <<65856,65912>>, <<65930,65931>>, <<66176,66204>>, <<66208,66256>>,
       <<66273,66299>>, <<66304,66339>>, <<66349,66378>>, <<66384,66421>>,
       <<66432,66461>>, <<66464,66499>>, <<66504,66511>>, <<66513,66517>>,
       <<66560,66717>>, <<66720,66729>>, <<66736,66771>>, <<66776,66811>>,
       <<66816,66855>>, <<66864,66915>>, <<66928,66938>>, <<66940,66954>>,
       <<66956,66962>>, <<66964,66965>>, <<66967,66977>>, <<66979,66993>>,
       <<66995,67001>>, <<67003,67004>>, <<67072,67382>>, <<67392,67413>>,
       <<67424,67431>>, <<67456,67461>>, <<67463,67504>>, <<67506,67514>>,
       <<67584,67589>>, <<67592,67592>>, <<67594,67637>>, <<67639,67640>>,
       <<67644,67644>>, <<67647,67669>>, <<67672,67702>>, <<67705,67742>>,
       <<67751,67759>>, <<67808,67826>>, <<67828,67829>>, <<67835,67867>>,
       <<67872,67897>>, <<67968,68023>>, <<68028,68047>>, <<68050,68096>>,
       <<68112,68115>>, <<68117,68119>>, <<68121,68149>>, <<68160,68168>>,
       <<68192,68222>>, <<68224,68255>>, <<68288,68295>>, <<68297,68324>>,
       <<68331,68335>>, <<68352,68405>>, <<68416,68437>>, <<68440,68466>>,
       <<68472,68497>>, <<68521,68527>>, <<68608,68680>>, <<68736,68786>>,
       <<68800,68850>>, <<68858,68899>>, <<68912,68921>>, <<69216,69246>>,
       <<69248,69289>>, <<69296,69297>>, <<69376,69415>>, <<69424,69445>>,
       <<69457,69460>>, <<69488,69505>>, <<69552,69579>>, <<69600,69622>>,
       <<69635,69687>>, <<69714,69743>>, <<69745,69746>>, <<69749,69749>>,
       <<69763,69807>>, <<69840,69864>>, <<69872,69881>>, <<69891,69926>>,
       <<69942,69951>>, <<69956,69956>>, <<69959,69959>>, <<69968,70002>>,
       <<70006,70006>>, <<70019,70066>>, <<70081,70084>>, <<70096,70106>>,
       <<70108,70108>>, <<70113,70132>>, <<70144,70161>>, <<70163,70187>>,
       <<70272,70278>>, <<70280,70280>>, <<70282,70285>>, <<70287,70301>>,
       <<70303,70312>>, <<70320,70366>>, <<70384,70393>>, <<70405,70412>>,
       <<70415,70416>>, <<70419,70440>>, <<70442,70448>>, <<70450,70451>>,
       <<70453,70457>>, <<70461,70461>>, <<70480,70480>>, <<70493,70497>>,
       <<70656,70708>>, <<70727,70730>>, <<70736,70745>>, <<70751,70753>>,
       <<70784,70831>>, <<70852,70853>>, <<70855,70855>>, <<70864,70873>>,
       <<71040,71086>>, <<71128,71131>>, <<71168,71215>>, <<71236,71236>>,
       <<71248,71257>>, <<71296,71338>>, <<71352,71352>>, <<71360,71369>>,
       <<71424,71450>>, <<71472,71483>>, <<71488,71494>>, <<71680,71723>>,
       <<71840,71922>>, <<71935,71942>>, <<71945,71945>>, <<71948,71955>>,
       <<71957,71958>>, <<71960,71983>>, <<71999,71999>>, <<72001,72001>>,
       <<72016,72025>>, <<72096,72103>>, <<72106,72144>>, <<72161,72161>>,
       <<72163,72163>>, <<72192,72192>>, <<72203,72242>>, <<72250,72250>>,
       <<72272,72272>>, <<72284,72329>>, <<72349,72349>>, <<72368,72440>>,
       <<72704,72712>>, <<72714,72750>>, <<72768,72768>>, <<72784,72812>>,
       <<72818,72847>>, <<72960,72966>>, <<72968,72969>>, <<72971,73008>>,
       <<73030,73030>>, <<73040,73049>>, <<73056,73061>>, <<73063,73064>>,
       <<73066,73097>>, <<73112,73112>>, <<73120,73129>>, <<73440,73458>>,
       <<73648,73648>>, <<73664,73684>>, <<73728,74649>>, <<74752,74862>>,
       <<74880,75075>>, <<77712,77808>>, <<77824,78894>>, <<82944,83526>>,
       <<92160,92728>>, <<92736,92766>>, <<92768,92777>>, <<92784,92862>>,
       <<92864,92873>>, <<92880,92909>>, <<92928,92975>>, <<92992,92995>>,
       <<93008,93017>>, <<93019,93025>>, <<93027,93047>>, <<93053,93071>>,
       <<93760,93846>>, <<93952,94026>>, <<94032,94032>>, <<94099,94111>>,
       <<94176,94177>>, <<94179,94179>>, <<94208,100343>>,
       <<100352,101589>>, <<101632,101640>>, <<110576,110579>>,
       <<110581,110587>>, <<110589,110590>>, <<110592,110882>>,
       <<110928,110930>>, <<110948,110951>>, <<110960,111355>>,
       <<113664,113770>>, <<113776,113788>>, <<113792,113800>>,
       <<113808,113817>>, <<119520,119539>>, <<119648,119672>>,
       <<119808,119892>>, <<119894,119964>>, <<119966,119967>>,
       <<119970,119970>>, <<119973,119974>>, <<119977,119980>>,
       <<119982,119993>>, <<119995,119995>>, <<119997,120003>>,
       <<120005,120069>>, <<120071,120074>>, <<120077,120084>>,
       <<120086,120092>>, <<120094,120121>>, <<120123,120126>>,
       <<120128,120132>>, <<120134,120134>>, <<120138,120144>>,
       <<120146,120485>>, <<120488,120512>>, <<120514,120538>>,
       <<120540,120570>>, <<120572,120596>>, <<120598,120628>>,
       <<120630,120654>>, <<120656,120686>>, <<120688,120712>>,
       <<120714,120744>>, <<120746,120770>>, <<120772,120779>>,
       <<120782,120831>>, <<122624,122654>>, <<123136,123180>>,
       <<123191,123197>>, <<123200,123209>>, <<123214,123214>>,
       <<123536,123565>>, <<123584,123627>>, <<123632,123641>>,
       <<124896,124902>>, <<124904,124907>>, <<124909,124910>>,
       <<124912,124926>>, <<124928,125124>>, <<125127,125135>>,
       <<125184,125251>>, <<125259,125259>>, <<125264,125273>>,
       <<126065,126123>>, <<126125,126127>>, <<126129,126132>>,
       <<126209,126253>>, <<126255,126269>>, <<126464,126467>>,
       <<126469,126495>>, <<126497,126498>>, <<126500,126500>>,
       <<126503,126503>>, <<126505,126514>>, <<126516,126519>>,
       <<126521,126521>>, <<126523,126523>>, <<126530,126530>>,
       <<126535,126535>>, <<126537,126537>>, <<126539,126539>>,
       <<126541,126543>>, <<126545,126546>>, <<126548,126548>>,
       <<126551,126551>>, <<126553,126553>>, <<126555,126555>>,
       <<126557,126557>>, <<126559,126559>>, <<126561,126562>>,
       <<126564,126564>>, <<126567,126570>>, <<126572,126578>>,
       <<126580,126583>>, <<126585,126588>>, <<126590,126590>>,
       <<126592,126601>>, <<126603,126619>>, <<126625,126627>>,
       <<126629,126633>>, <<126635,126651>>, <<127232,127244>>,
       <<130032,130041>>, <<131072,173791>>, <<173824,177976>>,
       <<177984,178205>>, <<178208,183969>>, <<183984,191456>>,
       <<194560,195101>>, <<196608,201546>> >>

\* The code points Python's \s matches and str.strip() removes.
SpaceCodes ==
    << <<9,13>>, <<28,32>>, <<133,133>>, <<160,160>>, <<5760,5760>>,
       <<8192,8202>>, <<8232,8233>>, <<8239,8239>>, <<8287,8287>>,
       <<12288,12288>> >>

\* The code points Python's \d matches (line 331): the decimal digits of
\* every script, as ranges <<first, last>>.
DigitCodes ==
    << <<48,57>>, <<1632,1641>>, <<1776,1785>>, <<1984,1993>>,
       <<2406,2415>>, <<2534,2543>>, <<2662,2671>>, <<2790,2799>>,
       <<2918,2927>>, <<3046,3055>>, <<3174,3183>>, <<3302,3311>>,
       <<3430,3439>>, <<3558,3567>>, <<3664,3673>>, <<3792,3801>>,
       <<3872,3881>>, <<4160,4169>>, <<4240,4249>>, <<6112,6121>>,
       <<6160,6169>>, <<6470,6479>>, <<6608,6617>>, <<6784,6793>>,
       <<6800,6809>>, <<6992,7001>>, <<7088,7097>>, <<7232,7241>>,
       <<7248,7257>>, <<42528,42537>>, <<43216,43225>>, <<43264,43273>>,
       <<43472,43481>>, <<43504,43513>>, <<43600,43609>>, <<44016,44025>>,
       <<65296,65305>>, <<66720,66729>>, <<68912,68921>>, <<69734,69743>>,
       <<69872,69881>>, <<69942,69951>>, <<70096,70105>>, <<70384,70393>>,
       <<70736,70745>>, <<70864,70873>>, <<71248,71257>>, <<71360,71369>>,
       <<71472,71481>>, <<71904,71913>>, <<72016,72025>>, <<72784,72793>>,
       <<73040,73049>>, <<73120,73129>>, <<92768,92777>>, <<92864,92873>>,
       <<93008,93017>>, <<120782,120831>>, <<123200,123209>>,
       <<123632,123641>>, <<125264,125273>>, <<130032,130041>> >>

\* str.lower() on the characters it changes into one character:
\* <<first, last, step, target>>, the code point first + k * step <= last
\* becoming target + k * step.
LowerCodes ==
    << <<65,90,1,97>>, <<192,214,1,224>>, <<216,222,1,248>>,
       <<256,302,2,257>>, <<306,310,2,307>>, <<313,327,2,314>>,
       <<330,374,2,331>>, <<376,376,1,255>>, <<377,381,2,378>>,
       <<385,385,1,595>>, <<386,388,2,387>>, <<390,390,1,596>>,
       <<391,391,1,392>>, <<393,394,1,598>>, <<395,395,1,396>>,
       <<398,398,1,477>>, <<399,399,1,601>>, <<400,400,1,603>>,
       <<401,401,1,402>>, <<403,403,1,608>>, <<404,404,1,611>>,
       <<406,406,1,617>>, <<407,407,1,616>>, <<408,408,1,409>>,
       <<412,412,1,623>>, <<413,413,1,626>>, <<415,415,1,629>>,
       <<416,420,2,417>>, <<422,422,1,640>>, <<423,423,1,424>>,
       <<425,425,1,643>>, <<428,428,1,429>>, <<430,430,1,648>>,
       <<431,431,1,432>>, <<433,434,1,650>>, <<435,437,2,436>>,
       <<439,439,1,658>>, <<440,440,1,441>>, <<444,444,1,445>>,
       <<452,452,1,454>>, <<453,453,1,454>>, <<455,455,1,457>>,
       <<456,456,1,457>>, <<458,458,1,460>>, <<459,475,2,460>>,
       <<478,494,2,479>>, <<497,497,1,499>>, <<498,500,2,499>>,
       <<502,502,1,405>>, <<503,503,1,447>>, <<504,542,2,505>>,
       <<544,544,1,414>>, <<546,562,2,547>>, <<570,570,1,11365>>,
       <<571,571,1,572>>, <<573,573,1,410>>, <<574,574,1,11366>>,
       <<577,577,1,578>>, <<579,579,1,384>>, <<580,580,1,649>>,
       <<581,581,1,652>>, <<582,590,2,583>>, <<880,882,2,881>>,
       <<886,886,1,887>>, <<895,895,1,1011>>, <<902,902,1,940>>,
       <<904,906,1,941>>, <<908,908,1,972>>, <<910,911,1,973>>,
       <<913,929,1,945>>, <<932,939,1,964>>, <<975,975,1,983>>,
       <<984,1006,2,985>>, <<1012,1012,1,952>>, <<1015,1015,1,1016>>,
       <<1017,1017,1,1010>>, <<1018,1018,1,1019>>, <<1021,1023,1,891>>,
       <<1024,1039,1,1104>>, <<1040,1071,1,1072>>, <<1120,1152,2,1121>>,
       <<1162,1214,2,1163>>, <<1216,1216,1,1231>>, <<1217,1229,2,1218>>,
       <<1232,1326,2,1233>>, <<1329,1366,1,1377>>, <<4256,4293,1,11520>>,
       <<4295,4295,1,11559>>, <<4301,4301,1,11565>>, <<5024,5103,1,43888>>,
       <<5104,5109,1,5112>>, <<7312,7354,1,4304>>, <<7357,7359,1,4349>>,
       <<7680,7828,2,7681>>, <<7838,7838,1,223>>, <<7840,7934,2,7841>>,
       <<7944,7951,1,7936>>, <<7960,7965,1,7952>>, <<7976,7983,1,7968>>,
       <<7992,7999,1,7984>>, <<8008,8013,1,8000>>, <<8025,8031,2,8017>>,
       <<8040,8047,1,8032>>, <<8072,8079,1,8064>>, <<8088,8095,1,8080>>,
       <<8104,8111,1,8096>>, <<8120,8121,1,8112>>, <<8122,8123,1,8048>>,
       <<8124,8124,1,8115>>, <<8136,8139,1,8050>>, <<8140,8140,1,8131>>,
       <<8152,8153,1,8144>>, <<8154,8155,1,8054>>, <<8168,8169,1,8160>>,
       <<8170,8171,1,8058>>, <<8172,8172,1,8165>>, <<8184,8185,1,8056>>,
       <<8186,8187,1,8060>>, <<8188,8188,1,8179>>, <<8486,8486,1,969>>,
       <<8490,8490,1,107>>, <<8491,8491,1,229>>, <<8498,8498,1,8526>>,
       <<8544,8559,1,8560>>, <<8579,8579,1,8580>>, <<9398,9423,1,9424>>,
       <<11264,11311,1,11312>>, <<11360,11360,1,11361>>,
       <<11362,11362,1,619>>, <<11363,11363,1,7549>>, <<11364,11364,1,637>>,
       <<11367,11371,2,11368>>, <<11373,11373,1,593>>,
       <<11374,11374,1,625>>, <<11375,11375,1,592>>, <<11376,11376,1,594>>,
       <<11378,11378,1,11379>>, <<11381,11381,1,11382>>,
       <<11390,11391,1,575>>, <<11392,11490,2,11393>>,
       <<11499,11501,2,11500>>, <<11506,11506,1,11507>>,
       <<42560,42604,2,42561>>, <<42624,42650,2,42625>>,
       <<42786,42798,2,42787>>, <<42802,42862,2,42803>>,
       <<42873,42875,2,42874>>, <<42877,42877,1,7545>>,
       <<42878,42886,2,42879>>, <<42891,42891,1,42892>>,
       <<42893,42893,1,613>>, <<42896,42898,2,42897>>,
       <<42902,42920,2,42903>>, <<42922,42922,1,614>>,
       <<42923,42923,1,604>>, <<42924,42924,1,609>>, <<42925,42925,1,620>>,
       <<42926,42926,1,618>>, <<42928,42928,1,670>>, <<42929,42929,1,647>>,
       <<42930,42930,1,669>>, <<42931,42931,1,43859>>,
       <<42932,42946,2,42933>>, <<42948,42948,1,42900>>,
       <<42949,42949,1,642>>, <<42950,42950,1,7566>>,
       <<42951,42953,2,42952>>, <<42960,42960,1,42961>>,
       <<42966,42968,2,42967>>, <<42997,42997,1,42998>>,
       <<65313,65338,1,65345>>, <<66560,66599,1,66600>>,
       <<66736,66771,1,66776>>, <<66928,66964,2,66967>>,
       <<66929,66937,2,66968>>, <<66941,66953,2,66980>>,
       <<66957,66961,2,66996>>, <<66965,66965,1,67004>>,
       <<68736,68786,1,68800>>, <<71840,71871,1,71872>>,
       <<93760,93791,1,93792>>, <<125184,125217,1,125218>> >>

\* The cased characters.
CasedCodes ==
    << <<65,90>>, <<97,122>>, <<170,170>>, <<181,181>>, <<186,186>>,
       <<192,214>>, <<216,246>>, <<248,442>>, <<444,447>>, <<452,659>>,
       <<661,696>>, <<704,705>>, <<736,740>>, <<837,837>>, <<880,883>>,
       <<886,887>>, <<890,893>>, <<895,895>>, <<902,902>>, <<904,906>>,
       <<908,908>>, <<910,929>>, <<931,1013>>, <<1015,1153>>, <<1162,1327>>,
       <<1329,1366>>, <<1376,1416>>, <<4256,4293>>, <<4295,4295>>,
       <<4301,4301>>, <<4304,4346>>, <<4349,4351>>, <<5024,5109>>,
       <<5112,5117>>, <<7296,7304>>, <<7312,7354>>, <<7357,7359>>,
       <<7424,7615>>, <<7680,7957>>, <<7960,7965>>, <<7968,8005>>,
       <<8008,8013>>, <<8016,8023>>, <<8025,8025>>, <<8027,8027>>,
       <<8029,8029>>, <<8031,8061>>, <<8064,8116>>, <<8118,8124>>,
       <<8126,8126>>, <<8130,8132>>, <<8134,8140>>, <<8144,8147>>,
       <<8150,8155>>, <<8160,8172>>, <<8178,8180>>, <<8182,8188>>,
       <<8305,8305>>, <<8319,8319>>, <<8336,8348>>, <<8450,8450>>,
       <<8455,8455>>, <<8458,8467>>, <<8469,8469>>, <<8473,8477>>,
       <<8484,8484>>, <<8486,8486>>, <<8488,8488>>, <<8490,8493>>,
       <<8495,8500>>, <<8505,8505>>, <<8508,8511>>, <<8517,8521>>,
       <<8526,8526>>, <<8544,8575>>, <<8579,8580>>, <<9398,9449>>,
       <<11264,11492>>, <<11499,11502>>, <<11506,11507>>, <<11520,11557>>,
       <<11559,11559>>, <<11565,11565>>, <<42560,42605>>, <<42624,42653>>,
       <<42786,42887>>, <<42891,42894>>, <<42896,42954>>, <<42960,42961>>,
       <<42963,42963>>, <<42965,42969>>, <<42997,42998>>, <<43000,43002>>,
       <<43824,43866>>, <<43868,43880>>, <<43888,43967>>, <<64256,64262>>,
       <<64275,64279>>, <<65313,65338>>, <<65345,65370>>, <<66560,66639>>,
       <<66736,66771>>, <<66776,66811>>, <<66928,66938>>, <<66940,66954>>,
       <<66956,66962>>, <<66964,66965>>, <<66967,66977>>, <<66979,66993>>,
       <<66995,67001>>, <<67003,67004>>, <<67456,67456>>, <<67459,67461>>,
       <<67463,67504>>, <<67506,67514>>, <<68736,68786>>, <<68800,68850>>,
       <<71840,71903>>, <<93760,93823>>, <<119808,119892>>,
       <<119894,119964>>, <<119966,119967>>, <<119970,119970>>,
       <<119973,119974>>, <<119977,119980>>, <<119982,119993>>,
       <<119995,119995>>, <<119997,120003>>, <<120005,120069>>,
       <<120071,120074>>, <<120077,120084>>, <<120086,120092>>,
       <<120094,120121>>, <<120123,120126>>, <<120128,120132>>,
       <<120134,120134>>, <<120138,120144>>, <<120146,120485>>,
       <<120488,120512>>, <<120514,120538>>, <<120540,120570>>,
       <<120572,120596>>, <<120598,120628>>, <<120630,120654>>,
       <<120656,120686>>, <<120688,120712>>, <<120714,120744>>,
       <<120746,120770>>, <<120772,120779>>, <<122624,122633>>,
       <<122635,122654>>, <<125184,125251>>, <<127280,127305>>,
       <<127312,127337>>, <<127344,127369>> >>

\* The case-ignorable characters.
IgnorableCodes ==
    << <<39,39>>, <<46,46>>, <<58,58>>, <<94,94>>, <<96,96>>, <<168,168>>,
       <<173,173>>, <<175,175>>, <<180,180>>, <<183,184>>, <<688,879>>,
       <<884,885>>, <<890,890>>, <<900,901>>, <<903,903>>, <<1155,1161>>,
       <<1369,1369>>, <<1375,1375>>, <<1425,1469>>, <<1471,1471>>,
       <<1473,1474>>, <<1476,1477>>, <<1479,1479>>, <<1524,1524>>,
       <<1536,1541>>, <<1552,1562>>, <<1564,1564>>, <<1600,1600>>,
       <<1611,1631>>, <<1648,1648>>, <<1750,1757>>, <<1759,1768>>,
       <<1770,1773>>, <<1807,1807>>, <<1809,1809>>, <<1840,1866>>,
       <<1958,1968>>, <<2027,2037>>, <<2042,2042>>, <<2045,2045>>,
       <<2070,2093>>, <<2137,2139>>, <<2184,2184>>, <<2192,2193>>,
       <<2200,2207>>, <<2249,2306>>, <<2362,2362>>, <<2364,2364>>,
       <<2369,2376>>, <<2381,2381>>, <<2385,2391>>, <<2402,2403>>,
       <<2417,2417>>, <<2433,2433>>, <<2492,2492>>, <<2497,2500>>,
       <<2509,2509>>, <<2530,2531>>, <<2558,2558>>, <<2561,2562>>,
       <<2620,2620>>, <<2625,2626>>, <<2631,2632>>, <<2635,2637>>,
       <<2641,2641>>, <<2672,2673>>, <<2677,2677>>, <<2689,2690>>,
       <<2748,2748>>, <<2753,2757>>, <<2759,2760>>, <<2765,2765>>,
       <<2786,2787>>, <<2810,2815>>, <<2817,2817>>, <<2876,2876>>,
       <<2879,2879>>, <<2881,2884>>, <<2893,2893>>, <<2901,2902>>,
       <<2914,2915>>, <<2946,2946>>, <<3008,3008>>, <<3021,3021>>,
       <<3072,3072>>, <<3076,3076>>, <<3132,3132>>, <<3134,3136>>,
       <<3142,3144>>, <<3146,3149>>, <<3157,3158>>, <<3170,3171>>,
       <<3201,3201>>, <<3260,3260>>, <<3263,3263>>, <<3270,3270>>,
       <<3276,3277>>, <<3298,3299>>, <<3328,3329>>, <<3387,3388>>,
       <<3393,3396>>, <<3405,3405>>, <<3426,3427>>, <<3457,3457>>,
       <<3530,3530>>, <<3538,3540>>, <<3542,3542>>, <<3633,3633>>,
       <<3636,3642>>, <<3654,3662>>, <<3761,3761>>, <<3764,3772>>,
       <<3782,3782>>, <<3784,3789>>, <<3864,3865>>, <<3893,3893>>,
       <<3895,3895>>, <<3897,3897>>, <<3953,3966>>, <<3968,3972>>,
       <<3974,3975>>, <<3981,3991>>, <<3993,4028>>, <<4038,4038>>,
       <<4141,4144>>, <<4146,4151>>, <<4153,4154>>, <<4157,4158>>,
       <<4184,4185>>, <<4190,4192>>, <<4209,4212>>, <<4226,4226>>,
       <<4229,4230>>, <<4237,4237>>, <<4253,4253>>, <<4348,4348>>,
       <<4957,4959>>, <<5906,5908>>, <<5938,5939>>, <<5970,5971>>,
       <<6002,6003>>, <<6068,6069>>, <<6071,6077>>, <<6086,6086>>,
       <<6089,6099>>, <<6103,6103>>, <<6109,6109>>, <<6155,6159>>,
       <<6211,6211>>, <<6277,6278>>, <<6313,6313>>, <<6432,6434>>,
       <<6439,6440>>, <<6450,6450>>, <<6457,6459>>, <<6679,6680>>,
       <<6683,6683>>, <<6742,6742>>, <<6744,6750>>, <<6752,6752>>,
       <<6754,6754>>, <<6757,6764>>, <<6771,6780>>, <<6783,6783>>,
       <<6823,6823>>, <<6832,6862>>, <<6912,6915>>, <<6964,6964>>,
       <<6966,6970>>, <<6972,6972>>, <<6978,6978>>, <<7019,7027>>,
       <<7040,7041>>, <<7074,7077>>, <<7080,7081>>, <<7083,7085>>,
       <<7142,7142>>, <<7144,7145>>, <<7149,7149>>, <<7151,7153>>,
       <<7212,7219>>, <<7222,7223>>, <<7288,7293>>, <<7376,7378>>,
       <<7380,7392>>, <<7394,7400>>, <<7405,7405>>, <<7412,7412>>,
       <<7416,7417>>, <<7468,7530>>, <<7544,7544>>, <<7579,7679>>,
       <<8125,8125>>, <<8127,8129>>, <<8141,8143>>, <<8157,8159>>,
       <<8173,8175>>, <<8189,8190>>, <<8203,8207>>, <<8216,8217>>,
       <<8228,8228>>, <<8231,8231>>, <<8234,8238>>, <<8288,8292>>,
       <<8294,8303>>, <<8305,8305>>, <<8319,8319>>, <<8336,8348>>,
       <<8400,8432>>, <<11388,11389>>, <<11503,11505>>, <<11631,11631>>,
       <<11647,11647>>, <<11744,11775>>, <<11823,11823>>, <<12293,12293>>,
       <<12330,12333>>, <<12337,12341>>, <<12347,12347>>, <<12441,12446>>,
       <<12540,12542>>, <<40981,40981>>, <<42232,42237>>, <<42508,42508>>,
       <<42607,42610>>, <<42612,42621>>, <<42623,42623>>, <<42652,42655>>,
       <<42736,42737>>, <<42752,42785>>, <<42864,42864>>, <<42888,42890>>,
       <<42994,42996>>, <<43000,43001>>, <<43010,43010>>, <<43014,43014>>,
       <<43019,43019>>, <<43045,43046>>, <<43052,43052>>, <<43204,43205>>,
       <<43232,43249>>, <<43263,43263>>, <<43302,43309>>, <<43335,43345>>,
       <<43392,43394>>, <<43443,43443>>, <<43446,43449>>, <<43452,43453>>,
       <<43471,43471>>, <<43493,43494>>, <<43561,43566>>, <<43569,43570>>,
       <<43573,43574>>, <<43587,43587>>, <<43596,43596>>, <<43632,43632>>,
       <<43644,43644>>, <<43696,43696>>, <<43698,43700>>, <<43703,43704>>,
       <<43710,43711>>, <<43713,43713>>, <<43741,43741>>, <<43756,43757>>,
       <<43763,43764>>, <<43766,43766>>, <<43867,43871>>, <<43881,43883>>,
       <<44005,44005>>, <<44008,44008>>, <<44013,44013>>, <<64286,64286>>,
       <<64434,64450>>, <<65024,65039>>, <<65043,65043>>, <<65056,65071>>,
       <<65106,65106>>, <<65109,65109>>, <<65279,65279>>, <<65287,65287>>,
       <<65294,65294>>, <<65306,65306>>, <<65342,65342>>, <<65344,65344>>,
       <<65392,65392>>, <<65438,65439>>, <<65507,65507>>, <<65529,65531>>,
       <<66045,66045>>, <<66272,66272>>, <<66422,66426>>, <<67456,67461>>,
       <<67463,67504>>, <<67506,67514>>, <<68097,68099>>, <<68101,68102>>,
       <<68108,68111>>, <<68152,68154>>, <<68159,68159>>, <<68325,68326>>,
       <<68900,68903>>, <<69291,69292>>, <<69446,69456>>, <<69506,69509>>,
       <<69633,69633>>, <<69688,69702>>, <<69744,69744>>, <<69747,69748>>,
       <<69759,69761>>, <<69811,69814>>, <<69817,69818>>, <<69821,69821>>,
       <<69826,69826>>, <<69837,69837>>, <<69888,69890>>, <<69927,69931>>,
       <<69933,69940>>, <<70003,70003>>, <<70016,70017>>, <<70070,70078>>,
       <<70089,70092>>, <<70095,70095>>, <<70191,70193>>, <<70196,70196>>,
       <<70198,70199>>, <<70206,70206>>, <<70367,70367>>, <<70371,70378>>,
       <<70400,70401>>, <<70459,70460>>, <<70464,70464>>, <<70502,70508>>,
       <<70512,70516>>, <<70712,70719>>, <<70722,70724>>, <<70726,70726>>,
       <<70750,70750>>, <<70835,70840>>, <<70842,70842>>, <<70847,70848>>,
       <<70850,70851>>, <<71090,71093>>, <<71100,71101>>, <<71103,71104>>,
       <<71132,71133>>, <<71219,71226>>, <<71229,71229>>, <<71231,71232>>,
       <<71339,71339>>, <<71341,71341>>, <<71344,71349>>, <<71351,71351>>,
       <<71453,71455>>, <<71458,71461>>, <<71463,71467>>, <<71727,71735>>,
       <<71737,71738>>, <<71995,71996>>, <<71998,71998>>, <<72003,72003>>,
       <<72148,72151>>, <<72154,72155>>, <<72160,72160>>, <<72193,72202>>,
       <<72243,72248>>, <<72251,72254>>, <<72263,72263>>, <<72273,72278>>,
       <<72281,72283>>, <<72330,72342>>, <<72344,72345>>, <<72752,72758>>,
       <<72760,72765>>, <<72767,72767>>, <<72850,72871>>, <<72874,72880>>,
       <<72882,72883>>, <<72885,72886>>, <<73009,73014>>, <<73018,73018>>,
       <<73020,73021>>, <<73023,73029>>, <<73031,73031>>, <<73104,73105>>,
       <<73109,73109>>, <<73111,73111>>, <<73459,73460>>, <<78896,78904>>,
       <<92912,92916>>, <<92976,92982>>, <<92992,92995>>, <<94031,94031>>,
       <<94095,94111>>, <<94176,94177>>, <<94179,94180>>, <<110576,110579>>,
       <<110581,110587>>, <<110589,110590>>, <<113821,113822>>,
       <<113824,113827>>, <<118528,118573>>, <<118576,118598>>,
       <<119143,119145>>, <<119155,119170>>, <<119173,119179>>,
       <<119210,119213>>, <<119362,119364>>, <<121344,121398>>,
       <<121403,121452>>, <<121461,121461>>, <<121476,121476>>,
       <<121499,121503>>, <<121505,121519>>, <<122880,122886>>,
       <<122888,122904>>, <<122907,122913>>, <<122915,122916>>,
       <<122918,122922>>, <<123184,123197>>, <<123566,123566>>,
       <<123628,123631>>, <<125136,125142>>, <<125252,125259>>,
       <<127995,127999>>, <<917505,917505>>, <<917536,917631>>,
       <<917760,917999>> >>

\* Python's \s (str pattern) and the characters str.strip() removes.
WhiteSpace == CodeSet(SpaceCodes)

\* Python's \w (str pattern).
WordChars == CodeSet(WordCodes)

\* Python's \d (str pattern).
DecimalDigits == CodeSet(DigitCodes)

\* The ranges ぀-ゟ, ゠-ヿ and 一-鿿 of line 75.
KanaKanji ==
    CodeSet(<< <<12352, 12447>>, <<12448, 12543>>, <<19968, 40959>> >>)

\* str.lower() on one character that it changes into one other character,
\* whatever stands around it.
LowerPairs ==
    UNION { { <<Chr(r[1] + k * r[3]), Chr(r[4] + k * r[3])>> :
                k \in 0..((r[2] - r[1]) \div r[3]) } :
            r \in Range(LowerCodes) }

LowerMapOf(pairs) ==
    [c \in {p[1] : p \in pairs} |-> (CHOOSE p \in pairs : p[1] = c)[2]]

LowerMap == LowerMapOf(LowerPairs)

\* str.lower() on one character: 'İ' (U+0130) becomes 'i' and the combining
\* dot U+0307, and a capital sigma (U+03A3), which no cased character
\* stands before, the small sigma U+03C3.
LowerIn(c, map) ==
    IF c = "U+0130" THEN <<"i", "U+0307">>
    ELSE IF c = "U+03A3" THEN <<"U+03C3">>
    ELSE IF c \in DOMAIN map THEN <<map[c]>>
    ELSE <<c>>

LowerChar(c) == LowerIn(c, LowerMap)

\* The characters the final-sigma rule of str.lower() asks about.
Cased == CodeSet(CasedCodes)

CaseIgnorable == CodeSet(IgnorableCodes)

\* The least and the greatest element of a set of indexes, 0 if it is empty.
FirstOf(S) == IF S = {} THEN 0 ELSE CHOOSE x \in S : \A y \in S : x <= y
LastOf(S) == IF S = {} THEN 0 ELSE CHOOSE x \in S : \A y \in S : y <= x

\* Is the capital sigma at index i of s in final position ?  It is when a
\* cased character stands before it and none after it, the case-ignorable
\* characters between them not counting.
FinalSigmaIn(s, i, cased, ignorable) ==
    LET b == LastOf({j \in 1..(i - 1) : s[j] \notin ignorable})
        a == FirstOf({j \in (i + 1)..Len(s) : s[j] \notin ignorable})
    IN  b # 0 /\ s[b] \in cased /\ (a = 0 \/ s[a] \notin cased)

FinalSigma(s, i) == FinalSigmaIn(s, i, Cased, CaseIgnorable)

\* What str.lower() and str.title() write for the character at index i of
\* s when they lower it.
LowerAt(s, i) ==
    IF s[i] # "U+03A3" THEN LowerChar(s[i])
    ELSE IF FinalSigma(s, i) THEN <<"U+03C2">> ELSE <<"U+03C3">>

\* str.lower()
RECURSIVE LowerFrom(_, _)
LowerFrom(s, i) ==
    IF i > Len(s) THEN <<>>
    ELSE LowerAt(s, i) \o LowerFrom(s, i + 1)

Lower(s) == LowerFrom(s, 1)

\* The title case of the characters that have one other character for it:
\* <<first, last, step, target>>, the code point first + k * step <= last
\* becoming target + k * step.
TitleCodes ==
    << <<97,122,1,65>>, <<181,181,1,924>>, <<224,246,1,192>>,
       <<248,254,1,216>>, <<255,255,1,376>>, <<257,303,2,256>>,
       <<305,305,1,73>>, <<307,311,2,306>>, <<314,328,2,313>>,
       <<331,375,2,330>>, <<378,382,2,377>>, <<383,383,1,83>>,
       <<384,384,1,579>>, <<387,389,2,386>>, <<392,392,1,391>>,
       <<396,396,1,395>>, <<402,402,1,401>>, <<405,405,1,502>>,
       <<409,409,1,408>>, <<410,410,1,573>>, <<414,414,1,544>>,
       <<417,421,2,416>>, <<424,424,1,423>>, <<429,429,1,428>>,
       <<432,432,1,431>>, <<436,438,2,435>>, <<441,441,1,440>>,
       <<445,445,1,444>>, <<447,447,1,503>>, <<452,452,1,453>>,
       <<454,454,1,453>>, <<455,455,1,456>>, <<457,457,1,456>>,
       <<458,458,1,459>>, <<460,476,2,459>>, <<477,477,1,398>>,
       <<479,495,2,478>>, <<497,497,1,498>>, <<499,501,2,498>>,
       <<505,543,2,504>>, <<547,563,2,546>>, <<572,572,1,571>>,
       <<575,576,1,11390>>, <<578,578,1,577>>, <<583,591,2,582>>,
       <<592,592,1,11375>>, <<593,593,1,11373>>, <<594,594,1,11376>>,
       <<595,595,1,385>>, <<596,596,1,390>>, <<598,599,1,393>>,
       <<601,601,1,399>>, <<603,603,1,400>>, <<604,604,1,42923>>,
       <<608,608,1,403>>, <<609,609,1,42924>>, <<611,611,1,404>>,
       <<613,613,1,42893>>, <<614,614,1,42922>>, <<616,616,1,407>>,
       <<617,617,1,406>>, <<618,618,1,42926>>, <<619,619,1,11362>>,
       <<620,620,1,42925>>, <<623,623,1,412>>, <<625,625,1,11374>>,
       <<626,626,1,413>>, <<629,629,1,415>>, <<637,637,1,11364>>,
       <<640,640,1,422>>, <<642,642,1,42949>>, <<643,643,1,425>>,
       <<647,647,1,42929>>, <<648,648,1,430>>, <<649,649,1,580>>,
       <<650,651,1,433>>, <<652,652,1,581>>, <<658,658,1,439>>,
       <<669,669,1,42930>>, <<670,670,1,42928>>, <<837,837,1,921>>,
       <<881,883,2,880>>, <<887,887,1,886>>, <<891,893,1,1021>>,
       <<940,940,1,902>>, <<941,943,1,904>>, <<945,961,1,913>>,
       <<962,962,1,931>>, <<963,971,1,931>>, <<972,972,1,908>>,
       <<973,974,1,910>>, <<976,976,1,914>>, <<977,977,1,920>>,
       <<981,981,1,934>>, <<982,982,1,928>>, <<983,983,1,975>>,
       <<985,1007,2,984>>, <<1008,1008,1,922>>, <<1009,1009,1,929>>,
       <<1010,1010,1,1017>>, <<1011,1011,1,895>>, <<1013,1013,1,917>>,
       <<1016,1016,1,1015>>, <<1019,1019,1,1018>>, <<1072,1103,1,1040>>,
       <<1104,1119,1,1024>>, <<1121,1153,2,1120>>, <<1163,1215,2,1162>>,
       <<1218,1230,2,1217>>, <<1231,1231,1,1216>>, <<1233,1327,2,1232>>,
       <<1377,1414,1,1329>>, <<5112,5117,1,5104>>, <<7296,7296,1,1042>>,
       <<7297,7297,1,1044>>, <<7298,7298,1,1054>>, <<7299,7300,1,1057>>,
       <<7301,7301,1,1058>>, <<7302,7302,1,1066>>, <<7303,7303,1,1122>>,
       <<7304,7304,1,42570>>, <<7545,7545,1,42877>>, <<7549,7549,1,11363>>,
       <<7566,7566,1,42950>>, <<7681,7829,2,7680>>, <<7835,7835,1,7776>>,
       <<7841,7935,2,7840>>, <<7936,7943,1,7944>>, <<7952,7957,1,7960>>,
       <<7968,7975,1,7976>>, <<7984,7991,1,7992>>, <<8000,8005,1,8008>>,
       <<8017,8023,2,8025>>, <<8032,8039,1,8040>>, <<8048,8049,1,8122>>,
       <<8050,8053,1,8136>>, <<8054,8055,1,8154>>, <<8056,8057,1,8184>>,
       <<8058,8059,1,8170>>, <<8060,8061,1,8186>>, <<8064,8071,1,8072>>,
       <<8080,8087,1,8088>>, <<8096,8103,1,8104>>, <<8112,8113,1,8120>>,
       <<8115,8115,1,8124>>, <<8126,8126,1,921>>, <<8131,8131,1,8140>>,
       <<8144,8145,1,8152>>, <<8160,8161,1,8168>>, <<8165,8165,1,8172>>,
       <<8179,8179,1,8188>>, <<8526,8526,1,8498>>, <<8560,8575,1,8544>>,
       <<8580,8580,1,8579>>, <<9424,9449,1,9398>>, <<11312,11359,1,11264>>,
       <<11361,11361,1,11360>>, <<11365,11365,1,570>>, <<11366,11366,1,574>>,
       <<11368,11372,2,11367>>, <<11379,11379,1,11378>>,
       <<11382,11382,1,11381>>, <<11393,11491,2,11392>>,
       <<11500,11502,2,11499>>, <<11507,11507,1,11506>>,
       <<11520,11557,1,4256>>, <<11559,11559,1,4295>>,
       <<11565,11565,1,4301>>, <<42561,42605,2,42560>>,
       <<42625,42651,2,42624>>, <<42787,42799,2,42786>>,
       <<42803,42863,2,42802>>, <<42874,42876,2,42873>>,
       <<42879,42887,2,42878>>, <<42892,42892,1,42891>>,
       <<42897,42899,2,42896>>, <<42900,42900,1,42948>>,
       <<42903,42921,2,42902>>, <<42933,42947,2,42932>>,
       <<42952,42954,2,42951>>, <<42961,42961,1,42960>>,
       <<42967,42969,2,42966>>, <<42998,42998,1,42997>>,
       <<43859,43859,1,42931>>, <<43888,43967,1,5024>>,
       <<65345,65370,1,65313>>, <<66600,66639,1,66560>>,
       <<66776,66811,1,66736>>, <<66967,66977,1,66928>>,
       <<66979,66993,1,66940>>, <<66995,67001,1,66956>>,
       <<67003,67004,1,66964>>, <<68800,68850,1,68736>>,
       <<71872,71903,1,71840>>, <<93792,93823,1,93760>>,
       <<125218,125251,1,125184>> >>

\* The title case of the characters that have several characters for it:
\* <<code point, code points>>.
TitleSpecialCodes ==
    << <<223,<<83,115>>>>, <<329,<<700,78>>>>, <<496,<<74,780>>>>,
       <<912,<<921,776,769>>>>, <<944,<<933,776,769>>>>,
       <<1415,<<1333,1410>>>>, <<7830,<<72,817>>>>, <<7831,<<84,776>>>>,
       <<7832,<<87,778>>>>, <<7833,<<89,778>>>>, <<7834,<<65,702>>>>,
       <<8016,<<933,787>>>>, <<8018,<<933,787,768>>>>,
       <<8020,<<933,787,769>>>>, <<8022,<<933,787,834>>>>,
       <<8114,<<8122,837>>>>, <<8116,<<902,837>>>>, <<8118,<<913,834>>>>,
       <<8119,<<913,834,837>>>>, <<8130,<<8138,837>>>>, <<8132,<<905,837>>>>,
       <<8134,<<919,834>>>>, <<8135,<<919,834,837>>>>,
       <<8146,<<921,776,768>>>>, <<8147,<<921,776,769>>>>,
       <<8150,<<921,834>>>>, <<8151,<<921,776,834>>>>,
       <<8162,<<933,776,768>>>>, <<8163,<<933,776,769>>>>,
       <<8164,<<929,787>>>>, <<8166,<<933,834>>>>, <<8167,<<933,776,834>>>>,
       <<8178,<<8186,837>>>>, <<8180,<<911,837>>>>, <<8182,<<937,834>>>>,
       <<8183,<<937,834,837>>>>, <<64256,<<70,102>>>>, <<64257,<<70,105>>>>,
       <<64258,<<70,108>>>>, <<64259,<<70,102,105>>>>,
       <<64260,<<70,102,108>>>>, <<64261,<<83,116>>>>, <<64262,<<83,116>>>>,
       <<64275,<<1348,1398>>>>, <<64276,<<1348,1381>>>>,
       <<64277,<<1348,1387>>>>, <<64278,<<1358,1398>>>>,
       <<64279,<<1348,1389>>>> >>

TitlePairs ==
    UNION { { <<Chr(r[1] + k * r[3]), Chr(r[4] + k * r[3])>> :
                k \in 0..((r[2] - r[1]) \div r[3]) } :
            r \in Range(TitleCodes) }

TitleMap == LowerMapOf(TitlePairs)

TitleSpecial ==
    LowerMapOf({ <<Chr(r[1]), [k \in DOMAIN r[2] |-> Chr(r[2][k])]>> :
                   r \in Range(TitleSpecialCodes) })

\* The title case of one character.
TitleIn(c, map, special) ==
    IF c \in DOMAIN special THEN special[c]
    ELSE IF c \in DOMAIN map THEN <<map[c]>>
    ELSE <<c>>

TitleChar(c) == TitleIn(c, TitleMap, TitleSpecial)

\* str.title(): a character that follows a cased character is lowered,
\* any other is put in title case.
RECURSIVE TitleFrom(_, _, _)
TitleFrom(s, i, cased) ==
    IF i > Len(s) THEN <<>>
    ELSE (IF i > 1 /\ s[i - 1] \in cased THEN LowerAt(s, i)
          ELSE TitleChar(s[i]))
             \o TitleFrom(s, i + 1, cased)

Title(s) == TitleFrom(s, 1, Cased)

-----------------------------------------------------------------------------
(* Text helpers: slicing, split, join, strip, decimal formatting.          *)

\* s[a..b] (1-based, inclusive); empty when b < a.
Slice(s, a, b) == IF b < a THEN <<>> ELSE SubSeq(s, a, b)

\* t == s[i .. i+Len(t)-1]
StartsAt(s, i, t) ==
    /\ i >= 1
    /\ i + Len(t) - 1 <= Len(s)
    /\ \A k \in 1..Len(t) : s[i + k - 1] = t[k]

\* Does t occur in s ?
Contains(s, t) == \E i \in 1..(Len(s) + 1) : StartsAt(s, i, t)

\* Number of places at which t occurs in s.
CountOcc(s, t) == Cardinality({i \in 1..Len(s) : StartsAt(s, i, t)})

\* The first index >= i at which s holds character c, or 0.
IndexFrom(s, i, c) == FirstOf({k \in i..Len(s) : s[k] = c})

\* str.split(c): the pieces between the occurrences of character c.
RECURSIVE SplitFrom(_, _, _)
SplitFrom(s, i, c) ==
    LET k == IndexFrom(s, i, c) IN
    IF k = 0 THEN <<Slice(s, i, Len(s))>>
    ELSE <<Slice(s, i, k - 1)>> \o SplitFrom(s, k + 1, c)

Split(s, c) == SplitFrom(s, 1, c)

\* sep.join(parts)
RECURSIVE Join(_, _)
Join(parts, sep) ==
    IF parts = <<>> THEN <<>>
    ELSE IF Len(parts) = 1 THEN parts[1]
    ELSE parts[1] \o sep \o Join(Tail(parts), sep)

\* The length of the run of white space that starts at index i.
RECURSIVE WsRun(_, _)
WsRun(s, i) ==
    IF i > Len(s) \/ s[i] \notin WhiteSpace THEN 0
    ELSE 1 + WsRun(s, i + 1)

\* The length of the run of white space that ends at index i.
RECURSIVE WsRunBack(_, _)
WsRunBack(s, i) ==
    IF i < 1 \/ s[i] \notin WhiteSpace THEN 0
    ELSE 1 + WsRunBack(s, i - 1)

\* str.strip()
Strip(s) ==
    LET a == WsRun(s, 1) IN
    IF a = Len(s) THEN <<>>
    ELSE Slice(s, a + 1, Len(s) - WsRunBack(s, Len(s)))

\* str(n) for a natural number n
RECURSIVE IntToStr(_)
IntToStr(n) ==
    IF n < 10 THEN <<Digits[n + 1]>>
    ELSE IntToStr(n \div 10) \o <<Digits[(n % 10) + 1]>>

-----------------------------------------------------------------------------
(* generate_toc                                                            *)

\* re.match(r'^(#{2,3})\s+(.+)$', line) on a line that holds no line break:
\* [ok, level, title], level the length of group 1 and title group 2.
\* Two or three '#' must be followed directly by white space, so a run of
\* one or of four and more '#' does not match; \s+ is greedy and gives back
\* one character only when it would leave nothing for (.+).
RECURSIVE HashRun(_, _)
HashRun(s, i) ==
    IF i > Len(s) \/ s[i] # "#" THEN 0 ELSE 1 + HashRun(s, i + 1)

\* Mutant: level-1 headers take part too (#{1,3}).
MatchTocHeader_Level1(line) ==
    LET h == HashRun(line, 1)
        w == WsRun(line, h + 1)
        n == Len(line)
        no == [ok |-> FALSE, level |-> 0, title |-> <<>>]
    IN  IF h \notin {1, 2, 3} \/ w = 0 THEN no
        ELSE IF h + w < n
             THEN [ok |-> TRUE, level |-> h, title |-> Slice(line, h + w + 1, n)]
        ELSE IF w >= 2
             THEN [ok |-> TRUE, level |-> h, title |-> <<line[n]>>]
        ELSE no

MatchTocHeader(line) ==
    LET h == HashRun(line, 1)
        w == WsRun(line, h + 1)
        n == Len(line)
        no == [ok |-> FALSE, level |-> 0, title |-> <<>>]
    IN  IF h \notin {2, 3} \/ w = 0 THEN no
        ELSE IF h + w < n
             THEN [ok |-> TRUE, level |-> h, title |-> Slice(line, h + w + 1, n)]
        ELSE IF w >= 2
             THEN [ok |-> TRUE, level |-> h, title |-> <<line[n]>>]
        ELSE no

\* One match of r'\s*\{#[^}]+\}' that starts at index i: the index after
\* the match, or 0.  [^}]+ also takes line breaks.
AnchorTagEnd(s, i) ==
    LET j == i + WsRun(s, i)
        k == IndexFrom(s, j + 2, "}")
    IN  IF StartsAt(s, j, <<"{", "#">>) /\ k >= j + 3 THEN k + 1 ELSE 0

\* re.sub(r'\s*\{#[^}]+\}', '', s) from index i on: the text up to the
\* next match is kept, the match dropped, and the scan goes on after it.
RECURSIVE StripAnchorsFrom(_, _)
StripAnchorsFrom(s, i) ==
    LET p == FirstOf({k \in i..Len(s) : AnchorTagEnd(s, k) # 0}) IN
    IF p = 0 THEN Slice(s, i, Len(s))
    ELSE Slice(s, i, p - 1) \o StripAnchorsFrom(s, AnchorTagEnd(s, p))

StripAnchors(s) == StripAnchorsFrom(s, 1)

\* re.sub(r'[^\w\s\u3040-\u309f\u30a0-\u30ff\u4e00-\u9fff-]', '', s)
SlugKeep(s) ==
    SelectSeq(s, LAMBDA c : \/ c \in WordChars
                            \/ c \in WhiteSpace
                            \/ c \in KanaKanji
                            \/ c = "-")

\* re.sub(r'\s+', '-', s) from index i on.
RECURSIVE HyphenateFrom(_, _)
HyphenateFrom(s, i) ==
    LET p == FirstOf({k \in i..Len(s) : s[k] \in WhiteSpace}) IN
    IF p = 0 THEN Slice(s, i, Len(s))
    ELSE Slice(s, i, p - 1) \o <<"-">> \o HyphenateFrom(s, p + WsRun(s, p))

\* The base slug of a cleaned title (lines 75-76).
Slugify(title_clean) == HyphenateFrom(SlugKeep(Lower(title_clean)), 1)

\* Lines 79-83: the anchor of a header with base slug `base`, and the new
\* header_counts.
AnchorSuffix(base, n) == base \o <<"-">> \o IntToStr(n)

\* Mutant: the count of a colliding slug is not stored back.
DedupAnchor_NoIncrement(header_counts, base) ==
    IF base \in DOMAIN header_counts
    THEN [anchor |-> AnchorSuffix(base, header_counts[base] + 1),
          counts |-> header_counts]
    ELSE [anchor |-> base,
          counts |-> [b \in DOMAIN header_counts \cup {base} |->
                        IF b = base THEN 0 ELSE header_counts[b]]]

DedupAnchor(header_counts, base) ==
    IF base \in DOMAIN header_counts
    THEN LET n == header_counts[base] + 1 IN
         [anchor |-> AnchorSuffix(base, n),
          counts |-> [header_counts EXCEPT ![base] = n]]
    ELSE [anchor |-> base,
          counts |-> [b \in DOMAIN header_counts \cup {base} |->
                        IF b = base THEN 0 ELSE header_counts[b]]]

\* '  ' * (level - 2)
TocIndent(level) == [i \in 1..(2 * (level - 2)) |-> " "]

Hashes(level) == [i \in 1..level |-> "#"]

\* f'{indent}- [{title_clean}](#{anchor})'
TocItem(level, title_clean, anchor) ==
    TocIndent(level) \o <<"-", " ", "[">> \o title_clean
        \o <<"]", "(", "#">> \o anchor \o <<")">>

\* f'{match.group(1)} {title_clean} {{#{anchor}}}'
AnchoredLine(level, title_clean, anchor) ==
    Hashes(level) \o <<" ">> \o title_clean \o <<" ", "{", "#">> \o anchor \o <<"}">>

\* The state of the loop of generate_toc before its first line.  heads
\* records, per participating header, what lines 68-83 computed for it.
TocStart ==
    [toc_items |-> <<>>, modified_lines |-> <<>>, header_counts |-> <<>>,
     heads |-> <<>>]

\* Lines 68-90 for a header of level `level`: the TOC item, the line with
\* its anchor, the new counts and the record of the header.
TocEntry(st, level, title_clean, base, d) ==
    [toc_items      |-> Append(st.toc_items,
                               TocItem(level, title_clean, d.anchor)),
     modified_lines |-> Append(st.modified_lines,
                               AnchoredLine(level, title_clean, d.anchor)),
     header_counts  |-> d.counts,
     heads          |-> Append(st.heads,
                               [line   |-> Len(st.modified_lines) + 1,
                                level  |-> level,
                                title  |-> title_clean,
                                base   |-> base,
                                anchor |-> d.anchor])]

\* Lines 75-83: the base slug is looked up in header_counts.
TocSlugged(st, level, title_clean, base) ==
    TocEntry(st, level, title_clean, base,
             DedupAnchor(st.header_counts, base))

\* Lines 75-76: the base slug of the cleaned title.
TocTitled(st, level, title_clean) ==
    TocSlugged(st, level, title_clean, Slugify(title_clean))

\* As TocMatched, but a blank line that is no header is not copied.
TocMatched_DropBlank(st, line, m) ==
    IF ~m.ok
    THEN IF line = <<>> THEN st
         ELSE [st EXCEPT !.modified_lines = Append(@, line)]
    ELSE TocTitled(st, m.level, StripAnchors(Strip(m.title)))

\* Lines 66-92 for a line and the match m of line 65 on it.
TocMatched(st, line, m) ==
    IF ~m.ok
    THEN [st EXCEPT !.modified_lines = Append(@, line)]
    ELSE TocTitled(st, m.level, StripAnchors(Strip(m.title)))

\* Mutant: a blank line that is no header is not copied.
TocLine_DropBlank(st, line) ==
    TocMatched_DropBlank(st, line, MatchTocHeader(line))

\* One iteration of the loop (lines 64-92).
TocLine(st, line) == TocMatched(st, line, MatchTocHeader(line))

RECURSIVE TocLoop(_, _, _)
TocLoop(st, lines, i) ==
    IF i > Len(lines) THEN st ELSE TocLoop(TocLine(st, lines[i]), lines, i + 1)


\* generate_toc(markdown): (toc_md, modified markdown), with the heads.
TocResult(md, st) ==
    IF st.toc_items = <<>>
    THEN [toc_md |-> <<>>, text |-> md, heads |-> <<>>]
    ELSE [toc_md |-> Html.TocHead \o Join(st.toc_items, <<NL>>) \o Html.TocFoot,
          text   |-> Join(st.modified_lines, <<NL>>),
          heads  |-> st.heads]

GenerateToc(md) == TocResult(md, TocLoop(TocStart, Split(md, NL), 1))

\* Lines 104-108 of markdown_to_html: which text generate_toc hands on, and
\* whether a TOC container is emitted (toc_md is not empty).
TocDecided(include_toc, r) ==
    [include_toc |-> include_toc,
     has_nav     |-> r.toc_md # <<>>,
     toc_in      |-> r.toc_md,
     body_in     |-> r.text]

TocDecision(md, include_toc) ==
    TocDecided(include_toc,
               IF include_toc THEN GenerateToc(md)
               ELSE [toc_md |-> <<>>, text |-> md, heads |-> <<>>])

-----------------------------------------------------------------------------
(* markdown_to_html_internal: image references and image columns           *)
(* (lines 120-206).                                                        *)

\* One match of r'!\[([^\]]*)\]\(([^)]+)\)' that starts at index i: the
\* index after the match, or 0.  The alt text runs to the first ']', the
\* path from the '(' after it to the first ')' and is not empty; both take
\* line breaks.
ImgEnd(s, i) ==
    IF ~StartsAt(s, i, <<"!", "[">>) THEN 0
    ELSE LET a == IndexFrom(s, i + 2, "]") IN
         IF a = 0 \/ a + 1 > Len(s) THEN 0
         ELSE IF s[a + 1] # "(" THEN 0
         ELSE LET b == IndexFrom(s, a + 2, ")") IN
              IF b >= a + 3 THEN b + 1 ELSE 0

\* Groups 1 and 2 of the match that starts at index i.
ImgAt(s, i) ==
    LET a == IndexFrom(s, i + 2, "]") IN
    [alt  |-> Slice(s, i + 2, a - 1),
     path |-> Slice(s, a + 2, ImgEnd(s, i) - 2)]

\* The first index >= i at which the image pattern matches, or 0.
NextImgStart(s, i) == FirstOf({k \in i..Len(s) : ImgEnd(s, k) # 0})

\* re.findall(r'!\[([^\]]*)\]\(([^)]+)\)', s) from index i on.
RECURSIVE FindImagesFrom(_, _)
FindImagesFrom(s, i) ==
    LET p == NextImgStart(s, i) IN
    IF p = 0 THEN <<>>
    ELSE <<ImgAt(s, p)>> \o FindImagesFrom(s, ImgEnd(s, p))

FindImages(s) == FindImagesFrom(s, 1)

\* The components of Path(s) after its root: pathlib splits the text at
\* '/' and drops the empty components and the components '.'; it keeps
\* the components '..'.
PathParts(s) ==
    SelectSeq(Split(s, "/"), LAMBDA c : c # <<>> /\ c # <<".">>)

\* The root of Path(s): '//' for exactly two leading '/', '/' for one and
\* for three and more, none for a relative path.
PathRoot(s) ==
    IF StartsAt(s, 1, <<"/", "/">>) /\ ~StartsAt(s, 1, <<"/", "/", "/">>)
    THEN <<"/", "/">>
    ELSE IF StartsAt(s, 1, <<"/">>) THEN <<"/">> ELSE <<>>

\* str() of the Path with this root and these components: '.' for a path
\* without root and components.
PathText(root, parts) ==
    root \o (IF parts = <<>> /\ root = <<>> THEN <<".">>
             ELSE Join(parts, <<"/">>))

\* str(Path(s))
PathStr(s) == PathText(PathRoot(s), PathParts(s))

\* Lines 132-135, 155-158 and 193-196: str(base_path / s), and str(Path(s))
\* when base_path is None, for which base = <<>> stands (the text of a
\* Path is never empty).  An absolute s replaces base; a relative one adds
\* its components to those of base and keeps the root of base.
PathUnder(base, s) ==
    IF base = <<>> \/ StartsAt(s, 1, <<"/">>) THEN PathStr(s)
    ELSE PathText(PathRoot(base), PathParts(base) \o PathParts(s))

\* Path(p).name: the final component, empty for a path without components.
PathName(path) ==
    IF PathParts(path) = <<>> THEN <<>>
    ELSE PathParts(path)[Len(PathParts(path))]

\* Where the suffix of a name starts: at its last '.', unless that '.' is
\* its first or its last character; 0 for a name without suffix.
SuffixStart(name) ==
    IF 1 < LastOf({j \in 1..Len(name) : name[j] = "."})
       /\ LastOf({j \in 1..Len(name) : name[j] = "."}) < Len(name)
    THEN LastOf({j \in 1..Len(name) : name[j] = "."})
    ELSE 0

\* Path(p).suffix.lower()
PathSuffix(path) ==
    IF SuffixStart(PathName(path)) = 0 THEN <<>>
    ELSE Lower(Slice(PathName(path), SuffixStart(PathName(path)),
                     Len(PathName(path))))

\* Path(p).stem: the name without its suffix.
PathStem(path) ==
    IF SuffixStart(PathName(path)) = 0 THEN PathName(path)
    ELSE Slice(PathName(path), 1, SuffixStart(PathName(path)) - 1)

\* str(Path(p).parent): the path without its final component.
PathParent(path) ==
    PathText(PathRoot(path),
             Slice(PathParts(path), 1, Len(PathParts(path)) - 1))

\* str(output_path.with_suffix(suffix)): the suffix of the final component
\* is replaced, or the new one added to a final component without suffix;
\* ValueError for a path with an empty name ('.', '/').
WithSuffix(output_path, suffix) ==
    IF PathParts(output_path) = <<>> THEN <<"ValueError">>
    ELSE PathText(PathRoot(output_path),
                  Append(Slice(PathParts(output_path), 1,
                               Len(PathParts(output_path)) - 1),
                         PathStem(output_path) \o suffix))

-----------------------------------------------------------------------------
(* The file system.  `exists` maps the absolute path of a file or of a     *)
(* directory, written '/' + components joined by '/', to what it holds:    *)
(* "dir" for a directory, else the content of the file.  A directory also  *)
(* exists when a path below it does, and the root directory, the current   *)
(* directory and the directories above it always exist.  There are no      *)
(* symbolic links and every file may be read and written.                  *)

\* The components of os.getcwd(); the code never changes it.
Cwd == << <<"w">> >>

\* The key of `exists` for the components of an absolute path.
Key(parts) == <<"/">> \o Join(parts, <<"/">>)

\* Do these components name a directory ?
IsDir(parts, ex) ==
    \/ Len(parts) <= Len(Cwd) /\ parts = SubSeq(Cwd, 1, Len(parts))
    \/ Key(parts) \in DOMAIN ex /\ ex[Key(parts)] = "dir"
    \/ \E q \in DOMAIN ex : StartsAt(q, 1, Key(parts) \o <<"/">>)

\* The characters os.fsencode writes as one byte and as two bytes, and the
\* surrogates it cannot write.
OneByte == CodeSet(<< <<0, 127>>, <<56448, 56575>> >>)
TwoBytes == CodeSet(<< <<128, 2047>> >>)
Surrogates == CodeSet(<< <<55296, 56447>>, <<56576, 57343>> >>)
AnySurrogate == CodeSet(<< <<55296, 57343>> >>)

\* The number of bytes of os.fsencode(s): UTF-8, and one byte for each of
\* the characters U+DC80..U+DCFF that stand for a byte that is no UTF-8.
\* A character above U+FFFF is written with more than four digits.
ByteLen(s) ==
    Len(s) + Cardinality({k \in DOMAIN s : s[k] \notin OneByte})
           + Cardinality({k \in DOMAIN s :
                             s[k] \notin OneByte /\ s[k] \notin TwoBytes})
           + Cardinality({k \in DOMAIN s : Len(s[k]) > 6})

\* The kernel's walk along the components `parts` from the directory `at`:
\* [st, at, last], st being "file" or "dir" for what the path names, or
\* the error of the walk; at the components it reached; last whether it
\* stopped at the final component.  '..' names the parent of a directory,
\* and the root for the root; a name of more than 255 bytes is too long.
RECURSIVE Walk(_, _, _)
Walk(at, parts, ex) ==
    IF parts = <<>> THEN [st |-> "dir", at |-> at, last |-> TRUE]
    ELSE IF Head(parts) = <<".", ".">>
    THEN Walk(Slice(at, 1, Len(at) - 1), Tail(parts), ex)
    ELSE IF ByteLen(Head(parts)) > 255
    THEN [st |-> "ENAMETOOLONG", at |-> at, last |-> Len(parts) = 1]
    ELSE IF IsDir(Append(at, Head(parts)), ex)
    THEN Walk(Append(at, Head(parts)), Tail(parts), ex)
    ELSE [st   |-> IF Key(Append(at, Head(parts))) \notin DOMAIN ex
                   THEN "ENOENT"
                   ELSE IF Len(parts) = 1 THEN "file" ELSE "ENOTDIR",
          at   |-> Append(at, Head(parts)),
          last |-> Len(parts) = 1]

\* os.stat(path) and open(path) as far as the name goes.  Python encodes
\* the text first: a surrogate other than U+DC80..U+DCFF cannot be encoded
\* and a null character is refused; the kernel refuses a path of more than
\* 4095 bytes and then walks, from the root for an absolute path and from
\* the current directory for a relative one.
Lookup(path, ex) ==
    IF \E k \in DOMAIN path : path[k] \in Surrogates
    THEN [st |-> "UnicodeEncodeError", at |-> <<>>, last |-> FALSE]
    ELSE IF \E k \in DOMAIN path : path[k] = "U+0000"
    THEN [st |-> "ValueError", at |-> <<>>, last |-> FALSE]
    ELSE IF ByteLen(path) > 4095
    THEN [st |-> "ENAMETOOLONG", at |-> <<>>, last |-> FALSE]
    ELSE Walk(IF StartsAt(path, 1, <<"/">>) THEN <<>> ELSE Cwd,
              PathParts(path), ex)

\* The exception Python raises for what a walk found, when the call needs
\* a file there.
ErrorOf(st) ==
    CASE st = "dir" -> "IsADirectoryError"
      [] st = "file" -> "FileExistsError"
      [] st = "ENOENT" -> "FileNotFoundError"
      [] st = "ENOTDIR" -> "NotADirectoryError"
      [] st = "ENAMETOOLONG" -> "OSError"
      [] OTHER -> st

\* Path(path).exists(): "True", "False", or OSError for a name too long,
\* the one error of os.stat that exists() does not take for an absence.
ExistsOf(st) ==
    IF st \in {"file", "dir"} THEN "True"
    ELSE IF st = "ENAMETOOLONG" THEN "OSError"
    ELSE "False"

PathExists(path, ex) == ExistsOf(Lookup(path, ex).st)

\* The exceptions a call of the model can end with.  A text that holds one
\* of them stands for a call that raised it.
Exceptions ==
    {"IsADirectoryError", "FileExistsError", "FileNotFoundError",
     "NotADirectoryError", "OSError", "ValueError", "UnicodeEncodeError",
     "SameFileError"}

\* What a call gives whose parts were written into `text` one after the
\* other: the first exception among them if there is one, else the text.
\* (t is the text, computed once.)
Outcome(text) ==
    CHOOSE r \in
        { IF \A k \in DOMAIN t : t[k] \notin Exceptions THEN t
          ELSE <<t[FirstOf({k \in DOMAIN t : t[k] \in Exceptions})]>> :
              t \in {text} } : TRUE

\* The kind image_to_data_uri declares for a suffix, or <<>>.
MimeOf(suffix) ==
    CASE suffix = <<".", "s", "v", "g">> -> <<"s", "v", "g", "+", "x", "m", "l">>
      [] suffix \in {<<".", "j", "p", "g">>, <<".", "j", "p", "e", "g">>}
                                      -> <<"j", "p", "e", "g">>
      [] suffix = <<".", "p", "n", "g">> -> <<"p", "n", "g">>
      [] suffix = <<".", "g", "i", "f">> -> <<"g", "i", "f">>
      [] suffix = <<".", "w", "e", "b", "p">> -> <<"w", "e", "b", "p">>
      [] OTHER -> <<>>

\* base64.b64encode(content).decode().  What a file holds is "", no byte
\* at all, "A", the one byte 'A', whose encoding is QQ==, or the name of
\* what a writer of the repository put into it; the bytes of these are not
\* computed here and the encoding of each is one symbol that names it.
FilePayload(content) ==
    IF content = "" THEN <<>>
    ELSE IF content = "A" THEN <<"Q", "Q", "=", "=">>
    ELSE <<"b64(" \o content \o ")">>

\* image_to_data_uri(img_path): the file is read for a suffix of the list
\* only, and read_bytes() raises when the path names no file.
DataUriOf(mime_type, found, ex) ==
    IF mime_type = <<>> THEN <<>>
    ELSE IF found.st # "file" THEN <<ErrorOf(found.st)>>
    ELSE <<"d","a","t","a",":","i","m","a","g","e","/">>
             \o mime_type
             \o <<";","b","a","s","e","6","4",",">>
             \o FilePayload(ex[Key(found.at)])

ImageToDataUri(img_path, ex) ==
    DataUriOf(MimeOf(PathSuffix(img_path)), Lookup(img_path, ex), ex)


\* Lines 140 and 163: one item of a column group.
ColumnItem(data_uri, alt_text) ==
    Html.ColItemA \o data_uri \o Html.ImgAltAttr \o alt_text \o Html.ColItemB \o alt_text
        \o Html.FigClose

\* Lines 137-140 and 160-163 for one image: its item if it names an
\* existing file of an embeddable kind, nothing if it does not, or the
\* exception of exists() or of image_to_data_uri.
ColumnOf(alt_text, found, data_uri) ==
    IF found = "OSError" THEN <<"OSError">>
    ELSE IF found = "True" /\ data_uri # <<>>
    THEN Outcome(ColumnItem(data_uri, alt_text))
    ELSE <<>>

ColumnEntry(alt_text, img_path, ex) ==
    ColumnOf(alt_text, PathExists(img_path, ex),
             ImageToDataUri(img_path, ex))

\* Lines 131-140 and 154-163: the items of the images, or the exception
\* the first of them to raise one ended with.
RECURSIVE ColumnItems(_, _, _)
ColumnItems(images, base, ex) ==
    IF images = <<>> THEN <<>>
    ELSE Outcome(ColumnEntry(Head(images).alt,
                             PathUnder(base, Head(images).path), ex)
                     \o ColumnItems(Tail(images), base, ex))

ColumnHtml(images, base, ex) ==
    Outcome(Html.DivOpen \o ColumnItems(images, base, ex) \o Html.DivClose)

\* Mutant: the span is replaced also when it holds no image.
ProcessColumns_NoGuard(whole, content, base, ex) ==
    ColumnHtml(FindImages(content), base, ex)

\* process_columns(match), with group 0 and group 1 of the match
ProcessColumns(whole, content, base, ex) ==
    LET images == FindImages(content) IN
    IF images = <<>> THEN whole ELSE ColumnHtml(images, base, ex)

\* process_inline_columns(match), with group 0 of the match
ProcessInlineColumns(line, base, ex) ==
    LET images == FindImages(line) IN
    IF Len(images) < 2 THEN line ELSE ColumnHtml(images, base, ex)

\* Lines 198-204 for the path of one image.
FigureOf(alt_text, found, data_uri) ==
    IF found = "OSError" THEN <<"OSError">>
    ELSE IF found = "True" /\ data_uri # <<>>
    THEN Outcome(Html.FigureA \o data_uri
                     \o Html.ImgAltAttr \o alt_text \o Html.FigureB
                     \o alt_text \o Html.FigClose)
    ELSE Html.MissingA \o alt_text \o Html.MissingB

ImageFigure(alt_text, img_path, ex) ==
    FigureOf(alt_text, PathExists(img_path, ex),
             ImageToDataUri(img_path, ex))

\* replace_image(match), with groups 1 and 2 of the match
ReplaceImage(alt_text, img_path_str, base, ex) ==
    ImageFigure(alt_text, PathUnder(base, img_path_str), ex)

\* One match of r'<!--\s*columns\s*-->' (word "columns") or of
\* r'<!--\s*/columns\s*-->' (word "/columns") at index i: the index after
\* it, or 0.
MarkerEnd(s, i, word) ==
    LET j == i + 4 + WsRun(s, i + 4)
        k == j + Len(word) + WsRun(s, j + Len(word))
    IN  IF /\ StartsAt(s, i, <<"<", "!", "-", "-">>)
           /\ StartsAt(s, j, word)
           /\ StartsAt(s, k, <<"-", "-", ">">>)
        THEN k + 3 ELSE 0

\* The first index >= i at which a closing marker starts, or 0.
CloseMarkerFrom(s, i) ==
    FirstOf({k \in i..Len(s) : MarkerEnd(s, k, Html.EndColsWord) # 0})

\* One match of the whole pattern of line 144 at index i: the index of its
\* closing marker, or 0.  (.*?) is lazy and takes line breaks (re.DOTALL):
\* it ends at the first closing marker after the opening one.
SpanClose(s, i) ==
    LET o == MarkerEnd(s, i, Html.ColsWord) IN
    IF o = 0 THEN 0 ELSE CloseMarkerFrom(s, o)

\* Line 144: re.sub(r'<!--\s*columns\s*-->(.*?)<!--\s*/columns\s*-->',
\* process_columns, html, flags=re.DOTALL) from index i on: the new text
\* and, per match, what was matched and what replaced it.
RECURSIVE ColumnsFrom(_, _, _, _)

\* The match at index p, whose group 0 is whole and group 1 content, is
\* replaced by out; r is the substitution after the match.
ColumnsSub(s, i, p, whole, content, out, r) ==
    [text |-> Slice(s, i, p - 1) \o out \o r.text,
     subs |-> <<[start  |-> p,
                 whole  |-> whole,
                 images |-> FindImages(content),
                 out    |-> out]>> \o r.subs]

\* The match at index p: its opening marker ends before index o, its
\* closing marker starts at index c and ends before index e.
ColumnsSpan(s, i, p, o, c, e, base, ex) ==
    ColumnsSub(s, i, p, Slice(s, p, e - 1), Slice(s, o, c - 1),
               ProcessColumns(Slice(s, p, e - 1), Slice(s, o, c - 1),
                              base, ex),
               ColumnsFrom(s, e, base, ex))

ColumnsClosed(s, i, p, o, c, base, ex) ==
    ColumnsSpan(s, i, p, o, c, MarkerEnd(s, c, Html.EndColsWord), base, ex)

\* p is the index of the first match from index i on, or 0.
ColumnsAt(s, i, p, base, ex) ==
    IF p = 0 THEN [text |-> Slice(s, i, Len(s)), subs |-> <<>>]
    ELSE ColumnsClosed(s, i, p, MarkerEnd(s, p, Html.ColsWord),
                       SpanClose(s, p), base, ex)

ColumnsFrom(s, i, base, ex) ==
    ColumnsAt(s, i, FirstOf({k \in i..Len(s) : SpanClose(s, k) # 0}),
              base, ex)

\* The index of the line break that ends the line index i lies in, or
\* Len(s) + 1.
LineEnd(s, i) ==
    LET k == IndexFrom(s, i, NL) IN IF k = 0 THEN Len(s) + 1 ELSE k

\* The image references that start in the line that index i lies in, at
\* index i or later.
ImgStartsInLine(s, i) == {p \in i..(LineEnd(s, i) - 1) : ImgEnd(s, p) # 0}

\* One match of r'^.*IMG.*IMG.*$' (IMG the image pattern, re.MULTILINE)
\* at the line start i: the index after the match, or 0.  Each '.*' stays
\* within a line and is greedy, so the engine takes the last image
\* reference of the line that a second one can follow, then the last one
\* that starts in the line the first one ends in; the final '.*' runs to
\* the end of the line the second one ends in.
InlineMatchEnd(s, i) ==
    LET firsts == {p \in ImgStartsInLine(s, i) :
                     ImgStartsInLine(s, ImgEnd(s, p)) # {}}
    IN  IF firsts = {} THEN 0
        ELSE LET p == LastOf(firsts)
                 q == LastOf(ImgStartsInLine(s, ImgEnd(s, p)))
             IN  LineEnd(s, ImgEnd(s, q))

\* Line 168: re.sub(r'^.*IMG.*IMG.*$', process_inline_columns, html,
\* flags=re.MULTILINE) from the line start i on.
RECURSIVE InlineFrom(_, _, _, _)

\* The line that ends at index le holds no match: it is kept.
InlineKept(s, i, le, r) ==
    [text |-> Slice(s, i, IF le > Len(s) THEN Len(s) ELSE le) \o r.text,
     subs |-> r.subs]

\* The match whole, which ends before index e, is replaced by out.
InlineSub(s, i, e, whole, out, r) ==
    [text |-> out \o (IF e > Len(s) THEN <<>> ELSE <<s[e]>>) \o r.text,
     subs |-> <<[start  |-> i,
                 whole  |-> whole,
                 images |-> FindImages(whole),
                 out    |-> out]>> \o r.subs]

InlineMatched(s, i, e, whole, base, ex) ==
    InlineSub(s, i, e, whole, ProcessInlineColumns(whole, base, ex),
              InlineFrom(s, e + 1, base, ex))

InlineSkip(s, i, le, base, ex) ==
    InlineKept(s, i, le, InlineFrom(s, le + 1, base, ex))

\* e is the index after the match at the line start i, or 0.
InlineAt(s, i, e, base, ex) ==
    IF e = 0 THEN InlineSkip(s, i, LineEnd(s, i), base, ex)
    ELSE InlineMatched(s, i, e, Slice(s, i, e - 1), base, ex)

InlineFrom(s, i, base, ex) ==
    IF i > Len(s) THEN [text |-> <<>>, subs |-> <<>>]
    ELSE InlineAt(s, i, InlineMatchEnd(s, i), base, ex)

\* Line 206: re.sub(r'!\[([^\]]*)\]\(([^)]+)\)', replace_image, html)
RECURSIVE ImagesFrom(_, _, _, _)

\* The reference im at index p, which ends before index e, is replaced by
\* out.
ImageSub(s, i, p, e, im, out, r) ==
    [text |-> Slice(s, i, p - 1) \o out \o r.text,
     subs |-> <<[start  |-> p,
                 whole  |-> Slice(s, p, e - 1),
                 images |-> <<im>>,
                 out    |-> out]>> \o r.subs]

ImageMatched(s, i, p, e, im, base, ex) ==
    ImageSub(s, i, p, e, im, ReplaceImage(im.alt, im.path, base, ex),
             ImagesFrom(s, e, base, ex))

\* p is the index of the first reference from index i on, or 0.
ImagesNext(s, i, p, base, ex) ==
    IF p = 0 THEN [text |-> Slice(s, i, Len(s)), subs |-> <<>>]
    ELSE ImageMatched(s, i, p, ImgEnd(s, p), ImgAt(s, p), base, ex)

ImagesFrom(s, i, base, ex) ==
    ImagesNext(s, i, NextImgStart(s, i), base, ex)

\* The closing '}' of r'\{#[^}]+\}$' (re.MULTILINE) for a "{#" at index u:
\* the first '}' after at least one other character, if the text or the
\* line ends after it; or 0.
TagCloseAtLineEnd(s, u) ==
    LET c == IndexFrom(s, u + 2, "}") IN
    IF c >= u + 3 /\ (c = Len(s) \/ s[c + 1] = NL) THEN c ELSE 0

\* Where group 2 of the header pattern can reach its annotation when the
\* group starts at index t: the indexes u of a "{#" later in t's line.
HeaderTagStarts(s, t) ==
    {u \in (t + 1)..(LineEnd(s, t) - 1) :
        StartsAt(s, u, <<"{", "#">>) /\ TagCloseAtLineEnd(s, u) # 0}

\* One match of r'^(#{1,6})\s+(.+\{#[^}]+\})$' (re.MULTILINE) at the line
\* start i: [stop, level, title], stop the index after the match or 0.
\* \s+ is greedy and also takes line breaks; .+ is greedy and stays in its
\* line.
HeaderAnchorMatch(s, i) ==
    LET h  == HashRun(s, i)
        w  == WsRun(s, i + h)
        ts == {t \in (i + h + 1)..(i + h + w) : HeaderTagStarts(s, t) # {}}
    IN  IF h \notin 1..6 \/ ts = {}
        THEN [stop |-> 0, level |-> 0, title |-> <<>>]
        ELSE LET t == LastOf(ts)
                 c == TagCloseAtLineEnd(s, LastOf(HeaderTagStarts(s, t)))
             IN  [stop |-> c + 1, level |-> h, title |-> Slice(s, t, c)]

\* re.search(r'\{#([^}]+)\}', title).group(1); <<>> stands for no match.
FirstAnchor(title) ==
    LET v == FirstOf({k \in 1..Len(title) :
                        /\ StartsAt(title, k, <<"{", "#">>)
                        /\ IndexFrom(title, k + 2, "}") >= k + 3})
    IN  IF v = 0 THEN <<>>
        ELSE Slice(title, v + 2, IndexFrom(title, v + 2, "}") - 1)

\* header_with_anchor(match), with the length of group 1 and group 2
HeaderWithAnchor(level, title) ==
    LET anchor == FirstAnchor(title) IN
    <<"<", "h">> \o IntToStr(level) \o <<" ", "i", "d", "=", "\"">> \o anchor
        \o <<"\"", ">">> \o StripAnchors(title)
        \o <<"<", "/", "h">> \o IntToStr(level) \o <<">">>

\* Line 182: re.sub(r'^(#{1,6})\s+(.+\{#[^}]+\})$', header_with_anchor,
\* html, flags=re.MULTILINE) from the line start i on.
RECURSIVE HeaderAnchorsFrom(_, _)
HeaderAnchorsFrom(s, i) ==
    IF i > Len(s) THEN <<>>
    ELSE LET m == HeaderAnchorMatch(s, i) IN
         IF m.stop = 0
         THEN LET le == LineEnd(s, i) IN
              Slice(s, i, IF le > Len(s) THEN Len(s) ELSE le)
                  \o HeaderAnchorsFrom(s, le + 1)
         ELSE HeaderWithAnchor(m.level, m.title)
                  \o (IF m.stop > Len(s) THEN <<>> ELSE <<s[m.stop]>>)
                  \o HeaderAnchorsFrom(s, m.stop + 1)

\* The exception a substitution ended with whose callbacks wrote `text`,
\* "" if none raised: re.sub calls them from left to right and the first
\* exception ends the call.
Raised(text) ==
    CHOOSE r \in
        { IF \A k \in DOMAIN t : t[k] \notin Exceptions THEN ""
          ELSE t[FirstOf({k \in DOMAIN t : t[k] \in Exceptions})] :
              t \in {text} } : TRUE

\* Lines 120-206 of markdown_to_html_internal: the text after each
\* substitution, and what the three image substitutions matched; or the
\* exception the first substitution to raise one ended with.
StagesOf(c, n, h, a, g) ==
    IF Raised(g.text) # "" THEN [raised |-> Raised(g.text)]
    ELSE
    [columns      |-> c.text,  column_subs |-> c.subs,
     inline       |-> n.text,  inline_subs |-> n.subs,
     headers      |-> h,
     stripped     |-> a,
     images       |-> g.text,  image_subs  |-> g.subs,
     raised       |-> ""]

\* Line 206 on the text a of line 185.
ImagesStage(c, n, h, a, base, ex) ==
    StagesOf(c, n, h, a, ImagesFrom(a, 1, base, ex))

\* Line 185 on the text h of line 182.
StrippedStage(c, n, h, base, ex) ==
    ImagesStage(c, n, h, StripAnchors(h), base, ex)

\* Line 182 on the result n of line 168.
AnchoredStage(c, n, base, ex) ==
    IF Raised(n.text) # "" THEN [raised |-> Raised(n.text)]
    ELSE StrippedStage(c, n, HeaderAnchorsFrom(n.text, 1), base, ex)

\* Line 168 on the result c of line 144.
InlineStage(c, base, ex) ==
    IF Raised(c.text) # "" THEN [raised |-> Raised(c.text)]
    ELSE AnchoredStage(c, InlineFrom(c.text, 1, base, ex), base, ex)

ImageStages(md, base, ex) ==
    InlineStage(ColumnsFrom(md, 1, base, ex), base, ex)

-----------------------------------------------------------------------------
(* markdown_to_html_internal: blockquotes, headers, emphasis, links and    *)
(* rules (lines 208-246).                                                  *)


\* What the loop flushes: the container,
\* '<blockquote>' + '<br/>'.join(blockquote_content) + '</blockquote>',
\* and a record of it.
QuoteFlush(st) ==
    [st EXCEPT
        !.result_lines =
            Append(@, Html.BqOpen \o Join(st.blockquote_content, Html.BrTag)
                          \o Html.BqClose),
        !.quotes = Append(@, [content |-> st.blockquote_content,
                              at |-> Len(st.result_lines) + 1]),
        !.in_blockquote = FALSE,
        !.blockquote_content = <<>>]

\* One turn of the loop over the lines (lines 214-225); the test is
\* line.strip().startswith('> ').
QuoteLine(st, line) ==
    IF StartsAt(Strip(line), 1, Html.QuoteMark)
    THEN [st EXCEPT
            !.in_blockquote = TRUE,
            !.blockquote_content =
                (IF st.in_blockquote THEN @ ELSE <<>>)
                    \o <<Slice(Strip(line), 3, Len(Strip(line)))>>]
    ELSE LET f == IF st.in_blockquote THEN QuoteFlush(st) ELSE st IN
         [f EXCEPT !.result_lines = Append(@, line)]

RECURSIVE QuoteLoop(_, _, _)
QuoteLoop(st, lines, i) ==
    IF i > Len(lines) THEN st
    ELSE QuoteLoop(QuoteLine(st, lines[i]), lines, i + 1)

\* Lines 209-230: [text, quotes].
Blockquotes(s) ==
    LET start == [result_lines |-> <<>>, in_blockquote |-> FALSE,
                  blockquote_content |-> <<>>, quotes |-> <<>>]
        st == QuoteLoop(start, Split(s, NL), 1)
        f  == IF st.in_blockquote THEN QuoteFlush(st) ELSE st
    IN [text |-> Join(f.result_lines, <<NL>>), quotes |-> f.quotes]

\* '<hN>' and '</hN>'
HOpen(n) == <<"<", "h">> \o IntToStr(n) \o <<">">>
HClose(n) == <<"<", "/", "h">> \o IntToStr(n) \o <<">">>

\* re.sub(r'^#{n} (.+)$', r'<hn>\1</hn>', line): the whole line, when it
\* starts with n '#' and a space and holds a character after them.
PlainHeaderLine(line, n) ==
    IF StartsAt(line, 1, Hashes(n) \o <<" ">>) /\ Len(line) > n + 1
    THEN HOpen(n) \o Slice(line, n + 2, Len(line)) \o HClose(n)
    ELSE line

\* The substitution on every line of the text (re.MULTILINE).
PlainHeaders(s, n) ==
    LET lines == Split(s, NL) IN
    Join([k \in 1..Len(lines) |-> PlainHeaderLine(lines[k], n)], <<NL>>)

\* Lines 233-235: levels 3, 2, 1 in this order.
Headers(s) == PlainHeaders(PlainHeaders(PlainHeaders(s, 3), 2), 1)

\* The end of the line that holds index i (the index of its last character).
EndOfLine(s, i) ==
    LET nl == IndexFrom(s, i, NL) IN IF nl = 0 THEN Len(s) ELSE nl - 1

\* One match of d(.+?)d that starts at index i, d being a run of '*': the
\* index of the closing run, or 0.  The content is not empty, stays in the
\* line and ends at the first closing run.
LazyPairClose(s, i, d) ==
    IF ~StartsAt(s, i, d) THEN 0
    ELSE FirstOf({k \in (i + Len(d) + 1)..(EndOfLine(s, i) - Len(d) + 1) :
                     StartsAt(s, k, d)})

\* re.sub(d(.+?)d, open \1 close, s) from index i on.
RECURSIVE LazyPairSubFrom(_, _, _, _, _)
LazyPairSubFrom(s, i, d, open, close) ==
    LET p == FirstOf({k \in i..Len(s) : LazyPairClose(s, k, d) # 0}) IN
    IF p = 0 THEN Slice(s, i, Len(s))
    ELSE LET c == LazyPairClose(s, p, d) IN
         Slice(s, i, p - 1) \o open \o Slice(s, p + Len(d), c - 1) \o close
             \o LazyPairSubFrom(s, c + Len(d), d, open, close)


\* One match of r'(?<!\*)\*([^*\n]+?)\*(?!\*)' that starts at index i: the
\* index of the closing '*', or 0.
StarClose(s, i) ==
    IF i > Len(s) \/ s[i] # "*" THEN 0
    ELSE IF i > 1 /\ s[i - 1] = "*" THEN 0
    ELSE LET c == IndexFrom(s, i + 1, "*") IN
         IF c < i + 2 \/ c > EndOfLine(s, i) THEN 0
         ELSE IF c < Len(s) /\ s[c + 1] = "*" THEN 0
         ELSE c

RECURSIVE StarSubFrom(_, _)
StarSubFrom(s, i) ==
    LET p == FirstOf({k \in i..Len(s) : StarClose(s, k) # 0}) IN
    IF p = 0 THEN Slice(s, i, Len(s))
    ELSE LET c == StarClose(s, p) IN
         Slice(s, i, p - 1) \o Html.EmOpen \o Slice(s, p + 1, c - 1) \o Html.EmClose
             \o StarSubFrom(s, c + 1)

\* As Emphasis, but only '*x*' is converted.
Emphasis_NoBold(s) == StarSubFrom(s, 1)

\* Lines 238-240: '***x***', then '**x**', then '*x*'.
Emphasis(s) ==
    LET a == LazyPairSubFrom(s, 1, <<"*", "*", "*">>,
                             Html.StrongOpen \o Html.EmOpen, Html.EmClose \o Html.StrongClose)
        b == LazyPairSubFrom(a, 1, <<"*", "*">>, Html.StrongOpen, Html.StrongClose)
    IN StarSubFrom(b, 1)

\* One match of r'\[([^\]]+)\]\(([^)]+)\)' that starts at index i: the
\* index after the match, or 0.  Text and url are not empty; both take
\* line breaks.
LinkEnd(s, i) ==
    IF i > Len(s) \/ s[i] # "[" THEN 0
    ELSE LET a == IndexFrom(s, i + 1, "]") IN
         IF a < i + 2 \/ a + 1 > Len(s) THEN 0
         ELSE IF s[a + 1] # "(" THEN 0
         ELSE LET b == IndexFrom(s, a + 2, ")") IN
              IF b >= a + 3 THEN b + 1 ELSE 0


\* re.sub(link pattern, r'<a href="\2">\1</a>', s) from index i on.
RECURSIVE LinksFrom(_, _)
LinksFrom(s, i) ==
    LET p == FirstOf({k \in i..Len(s) : LinkEnd(s, k) # 0}) IN
    IF p = 0 THEN Slice(s, i, Len(s))
    ELSE LET e == LinkEnd(s, p)
             a == IndexFrom(s, p + 1, "]")
         IN Slice(s, i, p - 1) \o Html.LinkA \o Slice(s, a + 2, e - 2) \o Html.LinkB
                \o Slice(s, p + 1, a - 1) \o Html.LinkC \o LinksFrom(s, e)

Links(s) == LinksFrom(s, 1)


\* Line 246, re.sub(r'^---+$', '<hr/>', html, flags=re.MULTILINE): every
\* line of three or more '-' becomes the tag.
Rules(s) ==
    LET lines == Split(s, NL)
        RuleLine(line) ==
            IF Len(line) >= 3 /\ \A k \in 1..Len(line) : line[k] = "-"
            THEN Html.HrTag ELSE line
    IN Join([k \in 1..Len(lines) |-> RuleLine(lines[k])], <<NL>>)

-----------------------------------------------------------------------------
(* markdown_to_html_internal: tables (lines 249-309).                      *)

\* [c.strip() for c in cells]
StripAll(cells) == [k \in 1..Len(cells) |-> Strip(cells[k])]

\* [c for c in cells if c]
RECURSIVE NonEmpty(_)
NonEmpty(cells) ==
    IF cells = <<>> THEN <<>>
    ELSE (IF cells[1] = <<>> THEN <<>> ELSE <<cells[1]>>)
             \o NonEmpty(Tail(cells))

\* Lines 258-260 and 270-272: the cells between the first and the last
\* '|' of the line; if there are none, the non-blank pieces of the line.
RowCells(line) ==
    LET parts == Split(line, "|")
        cells == StripAll(Slice(parts, 2, Len(parts) - 1))
    IN IF cells # <<>> THEN cells ELSE NonEmpty(StripAll(parts))


\* f'<th>{cell}</th>' or f'<td>{cell}</td>' for every cell
CellParts(cells, open, close) ==
    [k \in 1..Len(cells) |-> open \o cells[k] \o close]

\* Lines 269-277: the parts of the body rows, one row for a line that has
\* cells.
RECURSIVE BodyParts(_, _)
BodyParts(table_lines, i) ==
    IF i > Len(table_lines) THEN <<>>
    ELSE LET cells == RowCells(table_lines[i]) IN
         (IF cells # <<>>
          THEN <<Html.TrOpen>> \o CellParts(cells, Html.TdOpen, Html.TdClose) \o <<Html.TrClose>>
          ELSE <<>>)
             \o BodyParts(table_lines, i + 1)

\* As ConvertTable, but the line after the header is a body row too.
ConvertTable_KeepSeparator(table_lines) ==
    IF Len(table_lines) < 2 THEN Join(table_lines, <<NL>>)
    ELSE Join(<<Html.TableOpen, Html.TheadOpen>>
                  \o CellParts(RowCells(table_lines[1]), Html.ThOpen, Html.ThClose)
                  \o <<Html.TheadClose, Html.TbodyOpen>>
                  \o BodyParts(table_lines, 2)
                  \o <<Html.TableClose>>,
              <<NL>>)

\* convert_table
ConvertTable(table_lines) ==
    IF Len(table_lines) < 2 THEN Join(table_lines, <<NL>>)
    ELSE Join(<<Html.TableOpen, Html.TheadOpen>>
                  \o CellParts(RowCells(table_lines[1]), Html.ThOpen, Html.ThClose)
                  \o <<Html.TheadClose, Html.TbodyOpen>>
                  \o BodyParts(table_lines, 3)
                  \o <<Html.TableClose>>,
              <<NL>>)

\* stripped.startswith('|') and stripped.endswith('|')
IsTableLine(stripped) ==
    Len(stripped) >= 1 /\ stripped[1] = "|" /\ stripped[Len(stripped)] = "|"

\* re.match(r'^\|[\s\-:|]+\|$', stripped)
IsSeparator(stripped) ==
    /\ Len(stripped) >= 3
    /\ stripped[1] = "|"
    /\ stripped[Len(stripped)] = "|"
    /\ \A k \in 2..(Len(stripped) - 1) :
           stripped[k] \in WhiteSpace \cup {"-", ":", "|"}

\* result_lines.append(convert_table(table_buffer)), and a record of it.
TableFlushed(st, out) ==
    [st EXCEPT
        !.result_lines = Append(@, out),
        !.tables = Append(@, [buffer |-> st.table_buffer,
                              out |-> out,
                              at |-> Len(st.result_lines) + 1]),
        !.table_buffer = <<>>,
        !.in_table = FALSE]

TableFlush(st) == TableFlushed(st, ConvertTable(st.table_buffer))

\* One turn of the loop over the lines (lines 288-303).
TableKept(f, line) == [f EXCEPT !.result_lines = Append(@, line)]

TableStripped(st, line, stripped) ==
    IF IsTableLine(stripped) \/ IsSeparator(stripped)
    THEN [st EXCEPT !.in_table = TRUE,
                    !.table_buffer = Append(@, stripped)]
    ELSE TableKept(IF st.in_table /\ st.table_buffer # <<>>
                   THEN TableFlush(st) ELSE st,
                   line)

TableLine(st, line) == TableStripped(st, line, Strip(line))

RECURSIVE TableLoop(_, _, _)
TableLoop(st, lines, i) ==
    IF i > Len(lines) THEN st
    ELSE TableLoop(TableLine(st, lines[i]), lines, i + 1)

\* Lines 283-309: [text, tables].
TablesJoined(f) ==
    [text |-> Join(f.result_lines, <<NL>>), tables |-> f.tables]

\* Lines 305-307: a table that runs to the last line.
TablesEnd(st) ==
    TablesJoined(IF st.table_buffer # <<>> THEN TableFlush(st) ELSE st)

TableStart ==
    [result_lines |-> <<>>, table_buffer |-> <<>>,
     in_table |-> FALSE, tables |-> <<>>]

Tables(s) == TablesEnd(TableLoop(TableStart, Split(s, NL), 1))

-----------------------------------------------------------------------------
(* markdown_to_html_internal: lists (lines 312-354).                       *)


\* stripped.startswith('- ') or stripped.startswith('* ')
IsUnordered(stripped) ==
    StartsAt(stripped, 1, <<"-", " ">>) \/ StartsAt(stripped, 1, <<"*", " ">>)

\* The length of the match of r'\d*' at index i.
RECURSIVE DigitRun(_, _)
DigitRun(s, i) ==
    IF i > Len(s) \/ s[i] \notin DecimalDigits THEN 0
    ELSE 1 + DigitRun(s, i + 1)

\* re.match(r'^\d+\.\s', stripped): the length of the match, or 0.
OrderedMark(stripped) ==
    LET d == DigitRun(stripped, 1) IN
    IF d >= 1 /\ d + 2 <= Len(stripped) /\ stripped[d + 1] = "."
         /\ stripped[d + 2] \in WhiteSpace
    THEN d + 2 ELSE 0

\* f'<li>{content}</li>'
ListItem(content) == Html.LiOpen \o content \o Html.LiClose


\* As ListLine, but an open list of the other kind is left open.
ListLine_NoSwitch(st, line) ==
    LET stripped == Strip(line) IN
    IF IsUnordered(stripped)
    THEN [result |-> st.result
                        \o (IF st.in_ul \/ st.in_ol THEN <<>> ELSE <<Html.UlOpen>>)
                        \o <<ListItem(Slice(stripped, 3, Len(stripped)))>>,
          in_ul |-> ~st.in_ol, in_ol |-> st.in_ol]
    ELSE IF OrderedMark(stripped) # 0
    THEN [result |-> st.result
                        \o (IF st.in_ul \/ st.in_ol THEN <<>> ELSE <<Html.OlOpen>>)
                        \o <<ListItem(Slice(stripped,
                                            OrderedMark(stripped) + 1,
                                            Len(stripped)))>>,
          in_ul |-> st.in_ul, in_ol |-> ~st.in_ul]
    ELSE [result |-> st.result
                        \o (IF st.in_ul THEN <<Html.UlClose>> ELSE <<>>)
                        \o (IF st.in_ol THEN <<Html.OlClose>> ELSE <<>>)
                        \o <<line>>,
          in_ul |-> FALSE, in_ol |-> FALSE]

\* One turn of the loop over the lines (lines 317-347).
ListLine(st, line) ==
    LET stripped == Strip(line) IN
    IF IsUnordered(stripped)
    THEN [result |-> st.result
                        \o (IF st.in_ol THEN <<Html.OlClose>> ELSE <<>>)
                        \o (IF st.in_ul THEN <<>> ELSE <<Html.UlOpen>>)
                        \o <<ListItem(Slice(stripped, 3, Len(stripped)))>>,
          in_ul |-> TRUE, in_ol |-> FALSE]
    ELSE IF OrderedMark(stripped) # 0
    THEN [result |-> st.result
                        \o (IF st.in_ul THEN <<Html.UlClose>> ELSE <<>>)
                        \o (IF st.in_ol THEN <<>> ELSE <<Html.OlOpen>>)
                        \o <<ListItem(Slice(stripped,
                                            OrderedMark(stripped) + 1,
                                            Len(stripped)))>>,
          in_ul |-> FALSE, in_ol |-> TRUE]
    ELSE [result |-> st.result
                        \o (IF st.in_ul THEN <<Html.UlClose>> ELSE <<>>)
                        \o (IF st.in_ol THEN <<Html.OlClose>> ELSE <<>>)
                        \o <<line>>,
          in_ul |-> FALSE, in_ol |-> FALSE]

RECURSIVE ListLoop(_, _, _)
ListLoop(st, lines, i) ==
    IF i > Len(lines) THEN st
    ELSE ListLoop(ListLine(st, lines[i]), lines, i + 1)

CloseOpen_UlOnly(st) ==
    [st EXCEPT !.result = @ \o (IF st.in_ul THEN <<Html.UlClose>> ELSE <<>>)]

\* Lines 349-352: the container still open after the last line is closed.
\* The flags keep their value in the code and are not read again.
CloseOpen(st) ==
    [st EXCEPT !.result = @ \o (IF st.in_ul THEN <<Html.UlClose>> ELSE <<>>)
                            \o (IF st.in_ol THEN <<Html.OlClose>> ELSE <<>>)]

\* Lines 312-354: [text, result], result being the lines written.
Lists(s) ==
    LET start == [result |-> <<>>, in_ul |-> FALSE, in_ol |-> FALSE]
        result == CloseOpen(ListLoop(start, Split(s, NL), 1)).result
    IN [text |-> Join(result, <<NL>>), result |-> result]

-----------------------------------------------------------------------------
(* markdown_to_html_internal: paragraphs (lines 357-373).                  *)

\* str.split(sep) for a separator of several characters.
RECURSIVE SplitStrFrom(_, _, _)
SplitStrFrom(s, i, sep) ==
    LET k == FirstOf({j \in i..Len(s) : StartsAt(s, j, sep)}) IN
    IF k = 0 THEN <<Slice(s, i, Len(s))>>
    ELSE <<Slice(s, i, k - 1)>> \o SplitStrFrom(s, k + Len(sep), sep)

SplitStr(s, sep) == SplitStrFrom(s, 1, sep)

\* The tag names of the pattern of line 365, 'h[1-6]' spelled out.
BlockTags ==
    { <<"h","1">>, <<"h","2">>, <<"h","3">>, <<"h","4">>, <<"h","5">>, <<"h",
          "6">>, <<"u","l">>, <<"o","l">>,
      <<"l","i">>, <<"b","l","o","c","k","q","u","o","t","e">>, <<"f","i",
            "g","u","r","e">>, <<"h","r">>, <<"p">>, <<"d","i","v">>,
      <<"t","a","b","l","e">> }

\* re.match(r'^<(h[1-6]|ul|ol|li|blockquote|figure|hr|p|div|table)',
\*          stripped, re.IGNORECASE)
\* A letter of a tag name matches itself, its capital and, as
\* re.IGNORECASE has it, 'K' (U+212A) for 'k' and 'İ' (U+0130) and 'ı'
\* (U+0131) for 'i'; a digit matches itself.
StartsWithBlockTag(stripped) ==
    /\ StartsAt(stripped, 1, <<"<">>)
    /\ \E t \in BlockTags :
           /\ Len(stripped) >= Len(t) + 1
           /\ \A k \in 1..Len(t) :
                  \/ LowerChar(stripped[k + 1]) = <<t[k]>>
                  \/ t[k] = "i" /\ stripped[k + 1] \in {"U+0130", "U+0131"}


\* One turn of the loop over the blocks (lines 360-371): nothing for an
\* empty block, else what is appended and whether it was wrapped.
ParagraphBlock(block) ==
    LET stripped == Strip(block) IN
    IF stripped = <<>> THEN <<>>
    ELSE IF StartsWithBlockTag(stripped)
    THEN <<[block |-> stripped, wrapped |-> FALSE, out |-> stripped]>>
    ELSE IF StartsAt(stripped, 1, <<"<">>)
    THEN <<[block |-> stripped, wrapped |-> FALSE, out |-> stripped]>>
    ELSE <<[block |-> stripped, wrapped |-> TRUE,
            out |-> Html.POpen \o stripped \o Html.PClose]>>

RECURSIVE ParagraphLoop(_, _)
ParagraphLoop(blocks, i) ==
    IF i > Len(blocks) THEN <<>>
    ELSE ParagraphBlock(blocks[i]) \o ParagraphLoop(blocks, i + 1)

\* Lines 357-373: [text, blocks, processed].
Paragraphs(s) ==
    LET blocks == SplitStr(s, <<NL, NL>>)
        processed == ParagraphLoop(blocks, 1)
    IN [text |-> Join([k \in 1..Len(processed) |-> processed[k].out],
                      <<NL>>),
        blocks |-> blocks,
        processed |-> processed]

-----------------------------------------------------------------------------
(* markdown_to_html_internal, every stage in its order.                    *)

\* What the k-th group of statements of lines 208-373 computes from the
\* results x of the groups before it.
Stage(k, x) ==
    CASE k = 1 -> [q        |-> Blockquotes(x.stages.images)]  \* 208-230
      [] k = 2 -> [headers  |-> Headers(x.q.text)]             \* 233-235
      [] k = 3 -> [emphasis |-> Emphasis(x.headers)]           \* 238-240
      [] k = 4 -> [links    |-> Links(x.emphasis)]             \* 243
      [] k = 5 -> [rules    |-> Rules(x.links)]                \* 246
      [] k = 6 -> [t        |-> Tables(x.rules)]               \* 249-309
      [] k = 7 -> [li       |-> Lists(x.t.text)]               \* 311-354
      [] k = 8 -> [p        |-> Paragraphs(x.li.text)]         \* 356-373

\* The groups from the k-th on, run in the order of the code.
RECURSIVE StagesFrom(_, _)
StagesFrom(k, x) ==
    IF k > 8 THEN x ELSE StagesFrom(k + 1, x @@ Stage(k, x))

\* The text after every stage, with what the loops recorded.
StagesResult(x) ==
    [markdown |-> x.markdown,
     stages |-> x.stages,
     images |-> x.stages.images,
     quoted |-> x.q.text, quotes |-> x.q.quotes,
     headers |-> x.headers,
     emphasis |-> x.emphasis,
     links |-> x.links,
     rules |-> x.rules,
     tabled |-> x.t.text, tables |-> x.t.tables,
     listed |-> x.li.text, list_lines |-> x.li.result,
     blocks |-> x.p.blocks, processed |-> x.p.processed,
     html |-> x.p.text,
     raised |-> ""]

\* Lines 208-373 after the stages of lines 120-206, which an exception of
\* an image substitution ends.
AfterImages(md, stages) ==
    IF stages.raised # "" THEN [raised |-> stages.raised]
    ELSE StagesResult(StagesFrom(1, [markdown |-> md, stages |-> stages]))

\* markdown_to_html_internal
MarkdownToHtmlInternal(md, base, ex) ==
    CHOOSE r \in { AfterImages(md, stages) :
                      stages \in {ImageStages(md, base, ex)} } : TRUE

\* Lines 109-115: the nav container around the converted TOC text, then
\* the converted document; an exception of either conversion ends the call.
Page(d, toc_html, content) ==
    IF toc_html.raised # "" THEN [raised |-> toc_html.raised]
    ELSE IF content.raised # "" THEN [raised |-> content.raised]
    ELSE [include_toc |-> d.include_toc, has_nav |-> d.has_nav,
          toc_html |-> toc_html.html, content |-> content,
          html |-> toc_html.html \o content.html,
          raised |-> ""]

\* Line 111: the nav container around the converted TOC text.
NavHtml(converted) ==
    IF converted.raised # "" THEN [raised |-> converted.raised]
    ELSE [html |-> Html.NavOpen \o converted.html \o Html.NavClose,
          raised |-> ""]

\* Lines 109-111: toc_html, empty without a TOC text.
TocHtml(d, base, ex) ==
    IF ~d.has_nav THEN [html |-> <<>>, raised |-> ""]
    ELSE CHOOSE r \in
             { NavHtml(converted) :
                   converted \in {MarkdownToHtmlInternal(d.toc_in, base,
                                                         ex)} } : TRUE

\* Lines 104-115 once generate_toc has run: the TOC text and the document
\* are converted one after the other.
ConvertBoth(d, base, ex) ==
    CHOOSE r \in
        { Page(d, toc_html, content) :
              toc_html \in {TocHtml(d, base, ex)},
              content \in {MarkdownToHtmlInternal(d.body_in, base, ex)} } :
        TRUE

\* markdown_to_html
MarkdownToHtml(md, base, ex, include_toc) ==
    CHOOSE r \in { ConvertBoth(d, base, ex) :
                      d \in {TocDecision(md, include_toc)} } : TRUE

-----------------------------------------------------------------------------
(* generate_html_report (lines 378-643).  The document's head, with the    *)
(* style sheet of lines 434-628, is constant text but for the title; the   *)
(* model keeps the document from '<body>' on.                              *)

\* svg_to_data_uri
SvgToDataUri(svg_path, ex) == ImageToDataUri(svg_path, ex)

\* The f-string of lines 404-409 and 421-426 for the i-th descriptor
\* (counted from 0), label being 'Figure' or 'Diagram'.
SectionFigure(data_uri, caption, label, i) ==
    LET Indent20 == [k \in 1..20 |-> " "]
        Indent24 == [k \in 1..24 |-> " "]
    IN
    <<NL>> \o Indent20 \o <<"<","f","i","g","u","r","e",">","\n">>
        \o Indent24 \o <<"<","i","m","g"," ","s","r","c","=",
              "\"">> \o data_uri \o <<"\""," ","a","l","t","=",
                    "\"">> \o caption
        \o <<"\"","/",">","\n">>
        \o Indent24 \o <<"<","f","i","g","c","a","p","t","i","o","n",
              ">">> \o label \o <<" ">>
        \o IntToStr(i + 1) \o <<":", " ">> \o caption \o <<"<","/","f","i",
              "g","c","a","p","t","i","o","n",">","\n">>
        \o Indent20 \o <<"<","/","f","i","g","u","r","e",">",
              "\n">> \o Indent20

\* Lines 401-402 and 418-419: is the descriptor embedded ?  "True",
\* "False", or the OSError of exists().
EmbeddedOf(found, suffix) ==
    IF found # "True" THEN found
    ELSE IF suffix = <<".", "s", "v", "g">> THEN "True"
    ELSE "False"

Embedded(desc, ex) ==
    EmbeddedOf(PathExists(PathStr(desc.path), ex), PathSuffix(desc.path))

\* Lines 400-409 and 417-426 for one descriptor, the i-th counted from 0.
SectionOf(embedded, data_uri, caption, label, i) ==
    IF embedded = "OSError" THEN <<"OSError">>
    ELSE IF embedded = "True"
    THEN Outcome(SectionFigure(data_uri, caption, label, i))
    ELSE <<>>

SectionEntry(desc, label, i, ex) ==
    SectionOf(Embedded(desc, ex), SvgToDataUri(PathStr(desc.path), ex),
              desc.caption, label, i)

\* Lines 399-409 and 416-426: the loop over the descriptors from the k-th,
\* or the exception the first descriptor to raise one ended it with.
RECURSIVE SectionItems(_, _, _, _)
SectionItems(descs, k, label, ex) ==
    IF k > Len(descs) THEN <<>>
    ELSE Outcome(SectionEntry(descs[k], label, k - 1, ex)
                     \o SectionItems(descs, k + 1, label, ex))

\* Lines 396-410 and 413-427: a section, empty for an empty list.
Section(descs, open, label, ex) ==
    IF descs = <<>> THEN <<>>
    ELSE Outcome(open \o SectionItems(descs, 1, label, ex) \o Html.DivClose)



\* As ReportBody, with the two sections in the other order.
ReportBody_FiguresFirst(title, date, author, content_html, diagrams_html, images_html) ==
    <<"<","b","o","d","y",">","\n"," "," "," "," ","<","h","1",
          ">">> \o title \o <<"<","/","h","1",">","\n"," "," "," "," ","<",
                "d","i","v"," ","c","l","a","s","s","=","\"","m","e","t","a",
                      "d","a","t","a","\"",">","\n">>
        \o <<" "," "," "," "," "," "," "," ","<","p",">","D","a","t","e",":",
              " ">> \o date \o <<" ","|"," ","A","u","t","h","o","r",":",
                    " ">> \o author
        \o <<"<","/","p",">","\n"," "," "," "," ","<","/","d","i","v",">",
              "\n"," "," "," "," ","<","d","i","v"," ","c","l","a","s","s",
                    "=","\"","c","o","n","t","e","n","t","\"",">","\n"," ",
                          " "," "," "," "," "," "," ">>
        \o content_html \o <<"\n"," "," "," "," ","<","/","d","i","v",">",
              "\n"," "," "," "," ">> \o images_html
        \o <<"\n"," "," "," "," ">> \o diagrams_html \o <<"\n","<","/","b",
              "o","d","y",">","\n","<","/","h","t","m","l",">">>

\* Lines 629-641: the template from '<body>' on.
ReportBody(title, date, author, content_html, diagrams_html, images_html) ==
    <<"<","b","o","d","y",">","\n"," "," "," "," ","<","h","1",
          ">">> \o title \o <<"<","/","h","1",">","\n"," "," "," "," ","<",
                "d","i","v"," ","c","l","a","s","s","=","\"","m","e","t","a",
                      "d","a","t","a","\"",">","\n">>
        \o <<" "," "," "," "," "," "," "," ","<","p",">","D","a","t","e",":",
              " ">> \o date \o <<" ","|"," ","A","u","t","h","o","r",":",
                    " ">> \o author
        \o <<"<","/","p",">","\n"," "," "," "," ","<","/","d","i","v",">",
              "\n"," "," "," "," ","<","d","i","v"," ","c","l","a","s","s",
                    "=","\"","c","o","n","t","e","n","t","\"",">","\n"," ",
                          " "," "," "," "," "," "," ">>
        \o content_html \o <<"\n"," "," "," "," ","<","/","d","i","v",">",
              "\n"," "," "," "," ">> \o diagrams_html
        \o <<"\n"," "," "," "," ">> \o images_html \o <<"\n","<","/","b","o",
              "d","y",">","\n","<","/","h","t","m","l",">">>

\* generate_html_report: the content is converted (line 393), then the
\* figures are read (395-410), then the diagrams (412-427); the first
\* exception ends the call.
GenerateHtmlReport(title, content, images, diagrams, metadata, base, today, ex) ==
    LET \* Lines 388-390: metadata is a function on some of the keys "date"
        \* and "author" (None counts as the empty one); today is what the
        \* clock gives.
        date == IF "date" \in DOMAIN metadata THEN metadata["date"]
                ELSE today
        author == IF "author" \in DOMAIN metadata THEN metadata["author"]
                  ELSE Html.DefaultAuthor
        Report(c, images_html, diagrams_html) ==
            IF c.raised # "" THEN [raised |-> c.raised]
            ELSE IF Raised(images_html) # ""
            THEN [raised |-> Raised(images_html)]
            ELSE IF Raised(diagrams_html) # ""
            THEN [raised |-> Raised(diagrams_html)]
            ELSE
            [title |-> title,
             images |-> images, diagrams |-> diagrams,
             has_nav |-> c.has_nav,
             content_html |-> c.html,
             images_html |-> images_html,
             diagrams_html |-> diagrams_html,
             body |-> ReportBody(title, date, author, c.html, diagrams_html,
                                 images_html),
             raised |-> ""]
    IN CHOOSE r \in
           { Report(c, images_html, diagrams_html) :
                 c \in {MarkdownToHtml(content, base, ex, TRUE)},
                 images_html \in {Section(images, Html.FiguresOpen,
                                          Html.FigureWord, ex)},
                 diagrams_html \in {Section(diagrams, Html.DiagramsOpen,
                                            Html.DiagramWord, ex)} } : TRUE

-----------------------------------------------------------------------------
(* The calls that write files: create_diagram.py, fetch_images.py,         *)
(* download_images.py and generate_pdf.  A call works on a record          *)
(* [exists, raised, result]: the file system, the exception that ended the *)
(* call ("" for none) and what the call returns.                           *)

None == [none |-> TRUE]

\* A call that starts on the file system ex.
Started(ex) == [exists |-> ex, raised |-> "", result |-> None]

\* The call ends with the exception e, unless it has ended already.
Raise(o, e) == IF o.raised # "" THEN o ELSE [o EXCEPT !.raised = e]

\* The call returns value, unless an exception ended it.
Returned(o, value) == IF o.raised # "" THEN o ELSE [o EXCEPT !.result = value]

\* os.mkdir(path) as Path.mkdir(exist_ok=True) calls it: nothing happens
\* for a directory that exists, the directory is made under a parent that
\* exists, and every other case is the error of the walk.
MkdirAt(found, o) ==
    IF o.raised # "" \/ found.st = "dir" THEN o
    ELSE IF found.st = "ENOENT" /\ found.last
    THEN [o EXCEPT !.exists = (Key(found.at) :> "dir") @@ o.exists]
    ELSE Raise(o, ErrorOf(found.st))

Mkdir(path, o) == MkdirAt(Lookup(path, o.exists), o)

\* Is a directory on the way to what the walk looked for missing ?
WayMissing(found) == found.st = "ENOENT" /\ ~found.last

\* Path(path).mkdir(parents=True, exist_ok=True): when a directory on the
\* way is missing, the parent of the path is made in the same way first.
RECURSIVE MkdirParents(_, _)
MkdirParents(path, o) ==
    Mkdir(path,
          IF o.raised = "" /\ WayMissing(Lookup(path, o.exists))
          THEN MkdirParents(PathParent(path), o)
          ELSE o)

\* open(path, 'wb') and the write of content: Path.write_bytes, img.save
\* and the writing half of shutil.copyfile.  The file is made or replaced
\* in a directory that exists.
WriteAt(found, content, o) ==
    IF o.raised # "" THEN o
    ELSE IF found.st = "file" \/ (found.st = "ENOENT" /\ found.last)
    THEN [o EXCEPT !.exists = (Key(found.at) :> content) @@ o.exists]
    ELSE Raise(o, ErrorOf(found.st))

WriteBytes(path, content, o) == WriteAt(Lookup(path, o.exists), content, o)

\* Path(path).write_text(text), content naming the bytes of the text: the
\* file is opened, which empties it, and the text is encoded as it is
\* written; a surrogate cannot be encoded.
WriteText(path, text, content, o) ==
    IF \A k \in DOMAIN text : text[k] \notin AnySurrogate
    THEN WriteBytes(path, content, o)
    ELSE Raise(WriteBytes(path, "", o), "UnicodeEncodeError")

\* s[:n]
Prefix(s, n) == SubSeq(s, 1, IF Len(s) < n THEN Len(s) ELSE n)

\* item.get(key, default) for the dict item, a sequence of pairs
\* <<key, value>> in the order of the dict.
Get(item, key, default) ==
    IF \A k \in DOMAIN item : item[k][1] # key THEN default
    ELSE item[FirstOf({k \in DOMAIN item : item[k][1] = key})][2]

\* f'Item {i+1}' for the i-th item, counted from 1
ItemName(i) == <<"I", "t", "e", "m", " ">> \o IntToStr(i)

DictKey ==
    [ label |-> <<"l", "a", "b", "e", "l">>,
      value |-> <<"v", "a", "l", "u", "e">>,
      unit  |-> <<"u", "n", "i", "t">>,
      description |-> <<"d", "e", "s", "c", "r", "i", "p", "t", "i", "o",
                        "n">>,
      name  |-> <<"n", "a", "m", "e">> ]

\* The texts the drawing functions take from the title and the data and
\* write between the tags of the drawing, in the order of svg_parts.  A
\* value stands for the text str() gives for it.  The numbers computed
\* from the values, the places and sizes of the shapes and the percentages
\* of the pie chart, are not part of the model.

\* create_bar_chart_svg, lines 48, 55-59, 65 and 76-78
BarLabel(label) ==
    IF Len(label) > 28 THEN Prefix(label, 28) \o <<".", ".", ".">> ELSE label

BarTexts(data, title) ==
    <<title>>
        \o Join([i \in DOMAIN data |->
                    <<BarLabel(Get(data[i], DictKey.label, ItemName(i))),
                      Get(data[i], DictKey.value, <<"0">>)
                          \o Get(data[i], DictKey.unit, <<"%">>)>>],
                <<>>)

\* create_pie_chart_svg, lines 121, 165 and 171
PieTexts(data, title) ==
    <<title>>
        \o [i \in DOMAIN data |->
               Prefix(Get(data[i], DictKey.label, ItemName(i)), 15)]

\* create_stat_cards_svg, lines 215, 225-227 and 233-240
StatTexts(data, title) ==
    <<title>>
        \o Join([i \in DOMAIN data |->
                    <<Get(data[i], DictKey.value, <<>>),
                      Prefix(Get(data[i], DictKey.label, <<>>), 20)>>
                        \o (IF Get(data[i], DictKey.description, <<>>) = <<>>
                            THEN <<>>
                            ELSE <<Prefix(Get(data[i], DictKey.description,
                                              <<>>), 30)>>)],
                <<>>)

\* create_comparison_table_svg, lines 267-271: all_keys after the keys of
\* the items from the i-th on.
RECURSIVE AllKeys(_, _, _)

\* The keys of one item from the k-th on.
RECURSIVE ItemKeys(_, _, _)
ItemKeys(item, k, all_keys) ==
    IF k > Len(item) THEN all_keys
    ELSE ItemKeys(item, k + 1,
                  IF item[k][1] \in Range(all_keys)
                         \/ item[k][1] = DictKey.name
                  THEN all_keys
                  ELSE Append(all_keys, item[k][1]))

AllKeys(items, i, all_keys) ==
    IF i > Len(items) THEN all_keys
    ELSE AllKeys(items, i + 1, ItemKeys(items[i], 1, all_keys))

\* Line 312: key.replace("_", " ").title()
KeyLabel(key) ==
    Title([k \in DOMAIN key |-> IF key[k] = "_" THEN " " ELSE key[k]])

\* Lines 304-318 for the keys all_keys
ComparisonRows(items, all_keys) ==
    Join([r \in DOMAIN all_keys |->
             <<KeyLabel(all_keys[r])>>
                 \o [i \in DOMAIN items |->
                        Prefix(Get(items[i], all_keys[r], <<"-">>), 20)]],
         <<>>)

\* create_comparison_table_svg, lines 288 and 297-318
ComparisonTexts(items, title) ==
    <<title, <<"F", "e", "a", "t", "u", "r", "e">>>>
        \o [i \in DOMAIN items |-> Get(items[i], DictKey.name, ItemName(i))]
        \o ComparisonRows(items, AllKeys(items, 1, <<>>))

\* create_flowchart_svg, lines 369-370; the title is not written.
FlowchartTexts(steps) ==
    [i \in DOMAIN steps |->
        Prefix(steps[i], 25)
            \o (IF Len(steps[i]) > 25 THEN <<".", ".", ".">> ELSE <<>>)]

\* The texts of the drawing of the kind type.
DrawnTexts(type, data, title) ==
    IF type = "bar_chart" THEN BarTexts(data, title)
    ELSE IF type = "pie_chart" THEN PieTexts(data, title)
    ELSE IF type = "stat_cards" THEN StatTexts(data, title)
    ELSE IF type = "comparison_table" THEN ComparisonTexts(data, title)
    ELSE FlowchartTexts(data)

\* create_bar_chart_svg, create_pie_chart_svg, create_stat_cards_svg and
\* create_comparison_table_svg return None for no data (lines 21-22, 98-99,
\* 192-193, 257-258); with data, and create_flowchart_svg always, the
\* parent directory is made and the drawing written (lines 82-83, 176-177,
\* 244-245, 325-326, 379-380).  type is the 'type' of the dict returned.
\* data is a list of steps, each a text, for a flowchart, and for the
\* other kinds a list of dicts whose 'value' is a number for a bar chart
\* and a pie chart and whose other values are texts.
CreateDiagram(type, data, title, output_path, ex) ==
    IF type # "flowchart" /\ data = <<>> THEN Started(ex)
    ELSE Returned(WriteText(output_path,
                            Join(DrawnTexts(type, data, title), <<>>),
                            "svg_parts",
                            MkdirParents(PathParent(output_path),
                                         Started(ex))),
                  [path |-> PathStr(output_path), caption |-> title,
                   type |-> type])

\* fetch_images.py, line 16: re.sub(r'[^\w\-]', '_', name)[:50]
SanitizeFilename(name) ==
    SubSeq([k \in 1..Len(name) |->
               IF name[k] \in WordChars \/ name[k] = "-" THEN name[k]
               ELSE "_"],
           1, IF Len(name) < 50 THEN Len(name) ELSE 50)

\* fetch_images.py, lines 31-32: filepath for i = 1, 2, ...
PlaceholderPath(topic, output_dir, i) ==
    PathUnder(output_dir,
              SanitizeFilename(topic) \o <<"_">> \o IntToStr(i)
                  \o <<".", "s", "v", "g">>)

\* fetch_images.py, lines 45-50: the file is written and its dict added to
\* the list.
PlaceholderStep(topic, output_dir, i, o) ==
    Returned(WriteText(PlaceholderPath(topic, output_dir, i), topic,
                       "svg_content", o),
             Append(o.result,
                    [path |-> PlaceholderPath(topic, output_dir, i),
                     caption |-> topic \o <<" ", "-", " ", "F", "i", "g",
                                            "u", "r", "e", " ">>
                                     \o IntToStr(i),
                     type |-> "svg"]))

\* fetch_images.py, lines 29-50: the loop from i on.
RECURSIVE PlaceholderLoop(_, _, _, _, _)
PlaceholderLoop(topic, output_dir, count, i, o) ==
    IF i > count \/ o.raised # "" THEN o
    ELSE PlaceholderLoop(topic, output_dir, count, i + 1,
                         PlaceholderStep(topic, output_dir, i, o))

\* fetch_placeholder_images(topic, output_dir, count)
FetchPlaceholderImages(topic, output_dir, count, ex) ==
    PlaceholderLoop(topic, output_dir, count, 1,
                    Returned(MkdirParents(output_dir, Started(ex)), <<>>))

\* generate_pdf(html_content, output_path), lines 646-656.  Without
\* weasyprint the text is written beside the output path with the suffix
\* .html, no directory being made, and the call returns False; with it the
\* parent directory is made, the PDF written and the call returns True.
GeneratePdf(html_content, output_path, WEASYPRINT_AVAILABLE, ex) ==
    IF WEASYPRINT_AVAILABLE
    THEN Returned(WriteBytes(output_path, "pdf",
                             MkdirParents(PathParent(output_path),
                                          Started(ex))),
                  TRUE)
    ELSE IF WithSuffix(output_path, <<".", "h", "t", "m", "l">>)
                = <<"ValueError">>
    THEN Raise(Started(ex), "ValueError")
    ELSE Returned(WriteText(WithSuffix(output_path,
                                       <<".", "h", "t", "m", "l">>),
                            html_content, "html_content", Started(ex)),
                  FALSE)

-----------------------------------------------------------------------------
(* download_images.py, lines 21-24: hashlib.md5(url.encode()).hexdigest()   *)
(* [:12].  A 32-bit word is the pair <<high half, low half>> of its two     *)
(* 16-bit halves; the arithmetic is that of RFC 1321.                       *)

\* ord(c): the code point of a character of the model.
Ord(c) ==
    IF \E n \in 0..127 : Chr(n) = c THEN CHOOSE n \in 0..127 : Chr(n) = c
    ELSE IF Len(c) = 6 THEN CHOOSE n \in 128..65535 : Chr(n) = c
    ELSE CHOOSE n \in 65536..1114111 : Chr(n) = c

\* The bytes of chr(n).encode(), UTF-8, for a code point that is no
\* surrogate.
Utf8(n) ==
    IF n < 128 THEN <<n>>
    ELSE IF n < 2048 THEN <<192 + (n \div 64), 128 + (n % 64)>>
    ELSE IF n < 65536
    THEN <<224 + (n \div 4096), 128 + ((n \div 64) % 64), 128 + (n % 64)>>
    ELSE <<240 + (n \div 262144), 128 + ((n \div 4096) % 64),
           128 + ((n \div 64) % 64), 128 + (n % 64)>>

\* s.encode() for a text without surrogates.
RECURSIVE Encode(_)
Encode(s) ==
    IF s = <<>> THEN <<>> ELSE Utf8(Ord(Head(s))) \o Encode(Tail(s))

\* Bit by bit on two numbers of n bits: op is "and", "or" or "xor".
RECURSIVE BitOp(_, _, _, _)
BitOp(op, a, b, n) ==
    IF n = 0 THEN 0
    ELSE 2 * BitOp(op, a \div 2, b \div 2, n - 1)
             + (IF op = "and" THEN (a % 2) * (b % 2)
                ELSE IF op = "xor" THEN (a + b) % 2
                ELSE (a % 2) + (b % 2) - (a % 2) * (b % 2))

\* The operations on two numbers of 4 bits, as tables.
Nibbles ==
    [op \in {"and", "or", "xor"} |->
        [a \in 0..15 |-> [b \in 0..15 |-> BitOp(op, a, b, 4)]]]

\* On two numbers of 16 bits, 4 bits at a time.
Op16(op, a, b) ==
    Nibbles[op][a % 16][b % 16]
        + 16 * Nibbles[op][(a \div 16) % 16][(b \div 16) % 16]
        + 256 * Nibbles[op][(a \div 256) % 16][(b \div 256) % 16]
        + 4096 * Nibbles[op][a \div 4096][b \div 4096]

And32(x, y) == <<Op16("and", x[1], y[1]), Op16("and", x[2], y[2])>>
Or32(x, y) == <<Op16("or", x[1], y[1]), Op16("or", x[2], y[2])>>
Xor32(x, y) == <<Op16("xor", x[1], y[1]), Op16("xor", x[2], y[2])>>
Not32(x) == <<65535 - x[1], 65535 - x[2]>>

\* x + y modulo 2^32
Add32(x, y) ==
    <<(x[1] + y[1] + ((x[2] + y[2]) \div 65536)) % 65536,
      (x[2] + y[2]) % 65536>>

\* 2^n
RECURSIVE Pow2(_)
Pow2(n) == IF n = 0 THEN 1 ELSE 2 * Pow2(n - 1)

\* x rotated left by n bits, 0 < n < 32.
Rotl32(x, n) ==
    IF n = 16 THEN <<x[2], x[1]>>
    ELSE IF n > 16
    THEN <<((x[2] * Pow2(n - 16)) % 65536) + (x[1] \div Pow2(32 - n)),
           ((x[1] * Pow2(n - 16)) % 65536) + (x[2] \div Pow2(32 - n))>>
    ELSE <<((x[1] * Pow2(n)) % 65536) + (x[2] \div Pow2(16 - n)),
           ((x[2] * Pow2(n)) % 65536) + (x[1] \div Pow2(16 - n))>>

\* floor(2^32 * abs(sin(i))) for i = 1..64, and the shift of each round.
Md5K ==
    << <<55146, 42104>>, <<59591, 46934>>, <<9248, 28891>>, <<49597, 52974>>,
       <<62844, 4015>>, <<18311, 50730>>, <<43056, 17939>>, <<64838, 38145>>,
       <<27008, 39128>>, <<35652, 63407>>, <<65535, 23473>>, <<35164, 55230>>,
       <<27536, 4386>>, <<64920, 29075>>, <<42617, 17294>>, <<18868, 2081>>,
       <<63006, 9570>>, <<49216, 45888>>, <<9822, 23121>>, <<59830, 51114>>,
       <<54831, 4189>>, <<580, 5203>>, <<55457, 59009>>, <<59347, 64456>>,
       <<8673, 52710>>, <<49975, 2006>>, <<62677, 3463>>, <<17754, 5357>>,
       <<43491, 59653>>, <<64751, 41976>>, <<26479, 729>>, <<36138, 19594>>,
       <<65530, 14658>>, <<34673, 63105>>, <<28061, 24866>>, <<64997, 14348>>,
       <<42174, 59972>>, <<19422, 53161>>, <<63163, 19296>>, <<48831, 48240>>,
       <<10395, 32454>>, <<60065, 10234>>, <<54511, 12421>>, <<1160, 7429>>,
       <<55764, 53305>>, <<59099, 39397>>, <<8098, 31992>>, <<50348, 22117>>,
       <<62505, 8772>>, <<17194, 65431>>, <<43924, 9127>>, <<64659, 41017>>,
       <<25947, 22979>>, <<36620, 52370>>, <<65519, 62589>>, <<34180, 24017>>,
       <<28584, 32335>>, <<65068, 59104>>, <<41729, 17172>>, <<19976, 4513>>,
       <<63315, 32386>>, <<48442, 62005>>, <<10967, 53947>>, <<60294, 54161>> >>

Md5Shift ==
    << 7, 12, 17, 22, 7, 12, 17, 22, 7, 12, 17, 22, 7, 12, 17, 22,
       5, 9, 14, 20, 5, 9, 14, 20, 5, 9, 14, 20, 5, 9, 14, 20,
       4, 11, 16, 23, 4, 11, 16, 23, 4, 11, 16, 23, 4, 11, 16, 23,
       6, 10, 15, 21, 6, 10, 15, 21, 6, 10, 15, 21, 6, 10, 15, 21 >>

\* The message in blocks of 64 bytes: the bytes, the byte 128, zero bytes
\* up to 56 modulo 64, and the number of bits in 8 bytes, the lowest first.
Md5Padded(bytes) ==
    bytes \o <<128>>
        \o [k \in 1..((55 + 63 * Len(bytes)) % 64) |-> 0]
        \o <<(8 * Len(bytes)) % 256, ((8 * Len(bytes)) \div 256) % 256,
             ((8 * Len(bytes)) \div 65536) % 256,
             (8 * Len(bytes)) \div 16777216, 0, 0, 0, 0>>

\* The g-th word (from 0) of the block that starts after byte `at`.
Md5Word(m, at, g) ==
    <<m[at + 4 * g + 3] + 256 * m[at + 4 * g + 4],
      m[at + 4 * g + 1] + 256 * m[at + 4 * g + 2]>>

\* One of the 64 operations, i from 0, on the state v = <<A, B, C, D>>.
Md5Round(v, m, at, i) ==
    <<v[4],
      Add32(v[2],
            Rotl32(Add32(Add32(v[1],
                               IF i < 16
                               THEN Or32(And32(v[2], v[3]),
                                         And32(Not32(v[2]), v[4]))
                               ELSE IF i < 32
                               THEN Or32(And32(v[4], v[2]),
                                         And32(Not32(v[4]), v[3]))
                               ELSE IF i < 48
                               THEN Xor32(v[2], Xor32(v[3], v[4]))
                               ELSE Xor32(v[3], Or32(v[2], Not32(v[4])))),
                         Add32(Md5K[i + 1],
                               Md5Word(m, at,
                                       IF i < 16 THEN i
                                       ELSE IF i < 32 THEN (5 * i + 1) % 16
                                       ELSE IF i < 48 THEN (3 * i + 5) % 16
                                       ELSE (7 * i) % 16))),
                   Md5Shift[i + 1])),
      v[2],
      v[3]>>

\* The operations i .. n - 1.  (The test of v has the state computed
\* before the next operation starts from it.)
RECURSIVE Md5Rounds(_, _, _, _, _)
Md5Rounds(v, m, at, i, n) ==
    IF i = n \/ Len(v) # 4 THEN v
    ELSE Md5Rounds(Md5Round(v, m, at, i), m, at, i + 1, n)

\* The 64 operations on one block, 16 at a time.
Md5Block(v, m, at) ==
    Md5Rounds(Md5Rounds(Md5Rounds(Md5Rounds(v, m, at, 0, 16), m, at, 16, 32),
                        m, at, 32, 48),
              m, at, 48, 64)

\* Each of A, B, C, D with what the block made of it added.
Md5Sum(v, w) == [k \in 1..4 |-> Add32(v[k], w[k])]

\* The state after the blocks from the one that starts after byte `at`.
RECURSIVE Md5Blocks(_, _, _)
Md5Blocks(v, m, at) ==
    IF at >= Len(m) \/ Len(v) # 4 THEN v
    ELSE Md5Blocks(Md5Sum(v, Md5Block(v, m, at)), m, at + 64)

\* The state RFC 1321 starts from.
Md5Init ==
    << <<26437, 8961>>, <<61389, 43913>>, <<39098, 56574>>, <<4146, 21622>> >>

Digits16 ==
    <<"0", "1", "2", "3", "4", "5", "6", "7", "8", "9", "a", "b", "c", "d",
      "e", "f">>

\* Two hexadecimal digits for a byte.
HexByte(b) ==
    <<Digits16[(b \div 16) + 1], Digits16[(b % 16) + 1]>>

\* The first 12 hexadecimal digits of the digest for the final state v:
\* the bytes of A, the lowest first, and the two lowest of B.
DigestHead(v) ==
    HexByte(v[1][2] % 256) \o HexByte(v[1][2] \div 256)
        \o HexByte(v[1][1] % 256) \o HexByte(v[1][1] \div 256)
        \o HexByte(v[2][2] % 256) \o HexByte(v[2][2] \div 256)

\* sanitize_filename(url) of download_images.py
UrlHash(url) == DigestHead(Md5Blocks(Md5Init, Md5Padded(Encode(url)), 0))

\* download_images.py, lines 43-52: the extension for a content type.
ExtOf(content_type) ==
    IF Contains(content_type, <<"p", "n", "g">>) THEN <<".", "p", "n", "g">>
    ELSE IF Contains(content_type, <<"g", "i", "f">>)
    THEN <<".", "g", "i", "f">>
    ELSE IF Contains(content_type, <<"w", "e", "b", "p">>)
    THEN <<".", "w", "e", "b", "p">>
    ELSE IF Contains(content_type, <<"s", "v", "g">>)
    THEN <<".", "s", "v", "g">>
    ELSE <<".", "j", "p", "g">>

\* download_images.py, line 54: output_path
DownloadPath(url, output_dir, content_type) ==
    PathUnder(output_dir, UrlHash(url) \o ExtOf(content_type))

\* Lines 55-62: the bytes are written to output_path and the dict is
\* returned; an exception of write_bytes, which then wrote nothing, ends
\* the call with None (lines 63-65).
DownloadTo(url, output_path, response, ex) ==
    IF WriteBytes(output_path, response.content, Started(ex)).raised # ""
    THEN Started(ex)
    ELSE Returned(WriteBytes(output_path, response.content, Started(ex)),
                  [path |-> output_path,
                   url |-> url,
                   format |-> ExtOf(response.content_type)])

\* download_image(url, output_dir).  response is what the server gave:
\* ok, whether the request ended without an exception (lines 33-34), the
\* content-type header, empty when there is none, and the name of the
\* bytes of the body.  Every exception ends the call with None (lines
\* 63-65): that of the request and that of url.encode() for a surrogate.
DownloadImage(url, output_dir, response, ex) ==
    IF \/ ~response.ok
       \/ ~Contains(Lower(response.content_type), <<"i", "m", "a", "g", "e">>)
       \/ \E k \in DOMAIN url : url[k] \in AnySurrogate
    THEN Started(ex)
    ELSE DownloadTo(url, DownloadPath(url, output_dir, response.content_type),
                    response, ex)

\* The text of a sequence of characters as one string.
RECURSIVE Str(_)
Str(s) == IF s = <<>> THEN "" ELSE Head(s) \o Str(Tail(s))

\* The images the files of the model hold: what PIL reads from them, the
\* format of the file, the mode and the size of the picture, and whether
\* img.info has the key 'transparency'.
ImageRecords ==
    { [format |-> f, mode |-> m, width |-> wh[1], height |-> wh[2],
       transparency |-> t] :
        f \in {"PNG", "JPEG", "GIF"}, m \in {"RGB", "RGBA", "LA", "P"},
        wh \in {<<100, 300>>, <<400, 50>>, <<400, 300>>, <<800, 240>>,
                <<1000, 300>>},
        t \in BOOLEAN }

\* The name of the bytes of an image file.
ImageName(img) ==
    img.format \o " " \o img.mode
        \o (IF img.transparency THEN "+transparency " ELSE " ")
        \o Str(IntToStr(img.width)) \o "x" \o Str(IntToStr(img.height))

\* The exponent of the highest bit of q >= 1.
RECURSIVE FloorLog2(_)
FloorLog2(q) == IF q < 2 THEN 0 ELSE 1 + FloorLog2(q \div 2)

\* The least k for which m * 2 ** k >= w, for m >= 1: the double m / w
\* under 1 starts that many bits after the point.
RECURSIVE RatioShift(_, _)
RatioShift(m, w) == IF m >= w THEN 0 ELSE 1 + RatioShift(2 * m, w)

\* The exponent of the highest bit of the double m / w that is 1 or more.
RatioExp(m, w) == IF m < w THEN 0 ELSE FloorLog2(m \div w)

\* The remainder of r * 2 ** n divided by w.
RECURSIVE Doubled(_, _, _)
Doubled(r, w, n) == IF n = 0 THEN r ELSE Doubled((2 * r) % w, w, n - 1)

\* What the division m / w leaves after the 53 bits of the double: the
\* last of them stands 52 + RatioShift - RatioExp bits after the point.
RatioRem(m, w) ==
    Doubled(m % w, w, (52 + RatioShift(m, w)) - RatioExp(m, w))

\* Lines 89-90 for m >= 1, where h * m / w is the whole number q: is the
\* double h * (m / w) below q ?  The ratio is rounded down when
\* 0 < rem < w / 2, then the exact product is below q by h * rem / w
\* units of the last bit of the ratio, and the product is rounded to the
\* double below q when that is more than half the distance between q and
\* that double.
ProductBelow(h, m, w, q, rem) ==
    /\ 0 < rem
    /\ 2 * rem < w
    /\ 2 * h * rem * Pow2(RatioExp(m, w)) >
           w * Pow2(RatioShift(m, w)
                       + (IF q = Pow2(FloorLog2(q)) THEN FloorLog2(q) - 1
                          ELSE FloorLog2(q)))

\* Lines 89-90: int(height * (max_width / width)) for max_width >= 0, on
\* IEEE doubles.  A product that is no whole number lies further from the
\* next one than the rounding reaches.
Truncated(h, m, w) ==
    IF m = 0 \/ h = 0 THEN 0
    ELSE IF (h * m) % w # 0 THEN (h * m) \div w
    ELSE IF ProductBelow(h, m, w, (h * m) \div w, RatioRem(m, w))
    THEN ((h * m) \div w) - 1
    ELSE (h * m) \div w

\* Lines 89-90: new_height; int() rounds toward zero.
NewHeight(height, max_width, width) ==
    IF max_width < 0 THEN 0 - Truncated(height, 0 - max_width, width)
    ELSE Truncated(height, max_width, width)

\* Lines 88-91: the picture after the resize to max_width.
Resized(img, max_width) ==
    IF img.width <= max_width THEN img
    ELSE [img EXCEPT !.width = max_width,
                     !.height = NewHeight(img.height, max_width, img.width)]

\* Line 94: has_transparency
HasTransparency(img) ==
    img.mode \in {"RGBA", "LA"} \/ (img.mode = "P" /\ img.transparency)

\* Lines 96-105 and 112-115: the picture that is saved.  A picture with
\* transparency is saved as PNG; any other as JPEG, in the mode RGB when
\* its mode was P, and a JPEG file holds no 'transparency'.
Saved(img) ==
    IF HasTransparency(img) THEN [img EXCEPT !.format = "PNG"]
    ELSE [img EXCEPT !.format = "JPEG",
                     !.mode = IF img.mode = "P" THEN "RGB" ELSE img.mode,
                     !.transparency = FALSE]

\* Lines 108-109: output_path
OptimizedPath(input_path, output_dir, img) ==
    PathUnder(output_dir,
              PathStem(input_path)
                  \o <<"_", "o", "p", "t", "i", "m", "i", "z", "e", "d">>
                  \o (IF HasTransparency(img) THEN <<".", "p", "n", "g">>
                      ELSE <<".", "j", "p", "g">>))

\* Lines 107-128 for the picture img that Image.open gave, saved to
\* output_path: an exception of img.save ends the call with None and
\* nothing written.
OptimizeTo(input_path, output_path, max_width, img, ex) ==
    IF WriteBytes(output_path, ImageName(Saved(Resized(img, max_width))),
                  Started(ex)).raised # ""
    THEN Started(ex)
    ELSE Returned(WriteBytes(output_path,
                             ImageName(Saved(Resized(img, max_width))),
                             Started(ex)),
                  [path |-> output_path,
                   original_path |-> PathStr(input_path),
                   width |-> Resized(img, max_width).width,
                   height |-> Resized(img, max_width).height,
                   format |-> IF HasTransparency(img)
                              THEN <<".", "p", "n", "g">>
                              ELSE <<".", "j", "p", "g">>])

\* Lines 76-128 for the pictures that the bytes of the file name, none
\* when the file holds no image, for which Image.open raises.  A picture
\* under 200 by 100 is skipped (lines 84-85), and img.resize raises
\* ValueError for a width or a height under 1 (line 91).
OptimizeOpened(input_path, output_dir, max_width, imgs, ex) ==
    IF imgs = {} THEN Started(ex)
    ELSE IF \E img \in imgs : img.width < 200 \/ img.height < 100
    THEN Started(ex)
    ELSE IF \E img \in imgs : \/ Resized(img, max_width).width < 1
                               \/ Resized(img, max_width).height < 1
    THEN Started(ex)
    ELSE OptimizeTo(input_path,
                    OptimizedPath(input_path, output_dir,
                                  CHOOSE img \in imgs : TRUE),
                    max_width, CHOOSE img \in imgs : TRUE, ex)

\* Line 76 for what the file system gives for input_path: Image.open
\* raises for a path that names no file.
OptimizeFound(input_path, output_dir, max_width, found, ex) ==
    IF found.st # "file" THEN Started(ex)
    ELSE OptimizeOpened(input_path, output_dir, max_width,
                        {img \in ImageRecords :
                            ImageName(img) = ex[Key(found.at)]},
                        ex)

\* optimize_image(input_path, output_dir, max_width, quality): every
\* exception ends the call with None (lines 129-131).  The sizes in bytes
\* the dict reports are not part of the model.
OptimizeImage(input_path, output_dir, max_width, ex) ==
    OptimizeFound(input_path, output_dir, max_width, Lookup(input_path, ex),
                  ex)

\* shutil.copyfile(src, dst): os.stat is asked about both paths, which
\* raises for a path that cannot be encoded; SameFileError when both name
\* one file; else src is read and dst written.
CopyFound(from, to, dst, o) ==
    IF from.st \in {"UnicodeEncodeError", "ValueError"}
    THEN Raise(o, from.st)
    ELSE IF to.st \in {"UnicodeEncodeError", "ValueError"}
    THEN Raise(o, to.st)
    ELSE IF /\ from.st \in {"file", "dir"}
            /\ to.st \in {"file", "dir"}
            /\ from.at = to.at
    THEN Raise(o, "SameFileError")
    ELSE IF from.st # "file" THEN Raise(o, ErrorOf(from.st))
    ELSE WriteBytes(dst, o.exists[Key(from.at)], o)

CopyFile(src, dst, o) ==
    CopyFound(Lookup(src, o.exists), Lookup(dst, o.exists), dst, o)

\* shutil.copy(src, dst): into dst when dst is a directory.
Copy(src, dst, o) ==
    CopyFile(src,
             IF Lookup(dst, o.exists).st = "dir"
             THEN PathUnder(dst, PathName(src)) ELSE dst,
             o)

\* Lines 145-149 for a url whose download gave got.  The result of the
\* call in progress is [downloaded, images, failures], the lists of lines
\* 139-141 (images is the list optimized).
Downloaded(url, got, o) ==
    IF got.result = None
    THEN [o EXCEPT !.result.failures =
                       Append(@, [url |-> url, reason |-> "download_failed"])]
    ELSE [o EXCEPT !.exists = got.exists,
                   !.result.downloaded = Append(@, got.result)]

\* Lines 143-149 for one url.
DownloadStep(url, pool_dir, response, o) ==
    Downloaded(url, DownloadImage(url, pool_dir, response, o.exists), o)

RECURSIVE DownloadLoop(_, _, _, _, _)
DownloadLoop(urls, k, pool_dir, responses, o) ==
    IF k > Len(urls) THEN o
    ELSE DownloadLoop(urls, k + 1, pool_dir, responses,
                      DownloadStep(urls[k], pool_dir, responses[k], o))

\* Lines 159-163: after the copy to output_path, whose exception ends
\* process_images.
Copied(img_info, output_path, o) ==
    IF o.raised # "" THEN o
    ELSE [o EXCEPT !.result.images =
                       Append(@, [path |-> output_path,
                                  url |-> img_info.url,
                                  format |-> <<".", "s", "v", "g">>])]

\* Lines 165-170: after optimize_image gave got.
Optimized(img_info, got, o) ==
    IF got.result = None
    THEN [o EXCEPT !.result.failures =
                       Append(@, [url |-> img_info.url,
                                  reason |-> "optimization_failed"])]
    ELSE [o EXCEPT !.exists = got.exists,
                   !.result.images =
                       Append(@, [url |-> img_info.url] @@ got.result)]

\* Lines 152-170 for one downloaded image: an svg file is copied, any
\* other is optimized.
OptimizeStep(img_info, output_dir, max_width, o) ==
    IF PathSuffix(img_info.path) = <<".", "s", "v", "g">>
    THEN Copied(img_info, PathUnder(output_dir, PathName(img_info.path)),
                Copy(img_info.path,
                     PathUnder(output_dir, PathName(img_info.path)), o))
    ELSE Optimized(img_info,
                   OptimizeImage(img_info.path, output_dir, max_width,
                                 o.exists),
                   o)

RECURSIVE OptimizeLoop(_, _, _, _)
OptimizeLoop(k, output_dir, max_width, o) ==
    IF k > Len(o.result.downloaded) \/ o.raised # "" THEN o
    ELSE OptimizeLoop(k + 1, output_dir, max_width,
                      OptimizeStep(o.result.downloaded[k], output_dir,
                                   max_width, o))

\* Lines 172-178: the dict process_images returns.
Summary(o) ==
    Returned(o, [downloaded |-> Len(o.result.downloaded),
                 optimized |-> Len(o.result.images),
                 failed |-> Len(o.result.failures),
                 images |-> o.result.images,
                 failures |-> o.result.failures])

\* Lines 139-178 once the directories are made.
ProcessIn(urls, pool_dir, output_dir, max_width, responses, o) ==
    IF o.raised # "" THEN o
    ELSE Summary(OptimizeLoop(1, output_dir, max_width,
             DownloadLoop(urls, 1, pool_dir, responses,
                 Returned(o, [downloaded |-> <<>>, images |-> <<>>,
                              failures |-> <<>>]))))

\* process_images(urls, pool_dir, output_dir, max_width, quality),
\* responses[k] being what the server gave for urls[k].  An exception of a
\* mkdir (lines 136-137) ends the call.
ProcessImages(urls, pool_dir, output_dir, max_width, responses, ex) ==
    ProcessIn(urls, pool_dir, output_dir, max_width, responses,
              MkdirParents(output_dir, MkdirParents(pool_dir, Started(ex))))

-----------------------------------------------------------------------------
(* The documents of the table-of-contents runs: up to MaxTocLines lines,   *)
(* each a header of level 1..4 over a small set of titles, or plain text.  *)

MaxTocLines == 4

\* Titles: "a" and "A" share the slug a; "a 1" has the slug a-1, which is
\* also the anchor of the second "a"; "!" has the empty slug; "a {#x}"
\* carries an annotation already; "b" is another slug.
TocLinePool ==
    { Hashes(2) \o <<" ">> \o t :
        t \in { <<"a">>, <<"A">>, <<"a", " ", "1">>, <<"b">>, <<"!">>,
                <<"a", " ", "{", "#", "x", "}">> } }
    \cup { Hashes(3) \o <<" ">> \o <<"a">>,
           Hashes(1) \o <<" ">> \o <<"a">>,
           Hashes(4) \o <<" ">> \o <<"a">>,
           <<"t">>, <<>> }

TocDocs ==
    { Join(ls, <<NL>>) :
        ls \in UNION { [1..n -> TocLinePool] : n \in 1..MaxTocLines } }

InitToc ==
    /\ pc = "start"
    /\ markdown \in TocDocs
    /\ exists = [p \in {} |-> "A"]
    /\ base_path = <<>>
    /\ toc = None
    /\ toc2 = None
    /\ page = None
    /\ conv = None
    /\ html = None
    /\ report = None
    /\ calls = None
    /\ list_pass = None
    /\ raised = ""
    /\ returned = None

\* toc_md, text = generate_toc(markdown)
CallGenerateToc ==
    /\ pc = "start"
    /\ toc' = GenerateToc(markdown)
    /\ pc' = "toc"
    /\ UNCHANGED <<markdown, exists, base_path, toc2, page, conv, html,
                   report, calls, list_pass, raised,
                   returned>>

\* generate_toc applied to the text a first call rewrote
RerunGenerateToc ==
    /\ pc = "toc"
    /\ toc2' = GenerateToc(toc.text)
    /\ pc' = "toc2"
    /\ UNCHANGED <<markdown, exists, base_path, toc, page, conv, html,
                   report, calls, list_pass, raised,
                   returned>>

\* markdown_to_html up to the TOC decision
CallMarkdownToHtml ==
    /\ pc = "start"
    /\ \E include_toc \in BOOLEAN : page' = TocDecision(markdown, include_toc)
    /\ pc' = "page"
    /\ UNCHANGED <<markdown, exists, base_path, toc, toc2, conv, html,
                   report, calls, list_pass, raised,
                   returned>>

NextToc == CallGenerateToc \/ RerunGenerateToc \/ CallMarkdownToHtml

SpecToc == InitToc /\ [][NextToc]_vars

-----------------------------------------------------------------------------
(* The documents of the image runs: up to MaxImgToks pieces of text, each  *)
(* an image reference, the opening or the closing half of one, a line      *)
(* break, a columns marker or a letter; and the set of files that exist.   *)

MaxImgToks == 5


\* The pieces of input text the image documents are built from.
Tok ==
    [ \* line 126
      TokImg |-> <<"!","[","a","]","(","p",".","p","n","g",")">>,
      \* line 126
      TokOpen |-> <<"!","[">>,
      \* line 126
      TokTail |-> <<"]","(","q",")">>,
      \* line 144
      TokCols |-> <<"<","!","-","-"," ","c","o","l","u","m","n","s"," ","-",
          "-",">">>,
      \* line 144
      TokEndCols |-> <<"<","!","-","-"," ","/","c","o","l","u","m","n","s",
          " ","-","-",">">> ]

ImgTokens == {Tok.TokImg, Tok.TokOpen, Tok.TokTail, <<NL>>, Tok.TokCols, Tok.TokEndCols, <<"t">>}

\* The base_path of the call and the file system.  The image references
\* of these documents name p.png, of an embeddable kind, and q, which is
\* not.  Without base_path both are files of the current directory; with
\* the base_path d/.., p.png is a file of the current directory, which d
\* lies in, and q is missing; and without base_path p.png is a directory
\* and q is missing.
ImgWorlds ==
    { [base_path |-> <<>>,
       exists |-> [p \in {<<"/","w","/","p",".","p","n","g">>,
                          <<"/","w","/","q">>} |-> "A"]],
      [base_path |-> <<"d","/",".",".">>,
       exists |-> (<<"/","w","/","d">> :> "dir")
                      @@ (<<"/","w","/","p",".","p","n","g">> :> "A")],
      [base_path |-> <<>>,
       exists |-> (<<"/","w","/","p",".","p","n","g">> :> "dir")] }

ImgDocs ==
    { Join(ts, <<>>) :
        ts \in UNION { [1..n -> ImgTokens] : n \in 1..MaxImgToks } }

InitImg ==
    /\ pc = "start"
    /\ markdown \in ImgDocs
    /\ \E w \in ImgWorlds : exists = w.exists /\ base_path = w.base_path
    /\ toc = None
    /\ toc2 = None
    /\ page = None
    /\ conv = None
    /\ html = None
    /\ report = None
    /\ calls = None
    /\ list_pass = None
    /\ raised = ""
    /\ returned = None

\* html = markdown_to_html_internal(markdown, base_path), lines 120-206
CallImageStages ==
    /\ pc = "start"
    /\ \E o \in {ImageStages(markdown, base_path, exists)} :
           /\ conv' = IF o.raised = "" THEN o ELSE conv
           /\ raised' = o.raised
           /\ pc' = IF o.raised = "" THEN "images" ELSE "raised"
    /\ UNCHANGED <<markdown, exists, base_path, toc, toc2, page, html,
                   report, calls, list_pass, returned>>

NextImg == CallImageStages

SpecImg == InitImg /\ [][NextImg]_vars

-----------------------------------------------------------------------------
(* The documents of the block runs: up to MaxBlkLines lines drawn from one *)
(* of six families of lines, no file existing.                             *)

MaxBlkLines == 4

\* The six families of lines:
\*  - plain text, a blank line, bold text, a pipe-framed line, a list item,
\*    a quote line, and raw tags the pattern of line 365 does and does not
\*    name;
\*  - pipe-framed lines of two cells, one cell and no cell, a separator, a
\*    pipe-framed line between blanks, plain text and a blank line;
\*  - items of both unordered markers and of the ordered marker, an indented
\*    item, plain text and a blank line;
\*  - quote lines, an indented one, a marker without its blank, a marker
\*    with nothing after it, plain text and a blank line;
\*  - header lines of levels 2, 1, 4 and 7 that end with an annotation, one
\*    with text after its annotation, one that ends with the empty
\*    annotation generate_toc writes for a title without a slug, one without
\*    annotation, and plain text;
\*  - items whose content is emphasis, a link and bold text, plain text
\*    followed by an annotation, an annotation alone on its line, and plain
\*    text.
BlkFamilies ==
    { { <<"t">>, <<>>, <<"*","*","b","*","*">>, <<"|","a","|">>,
        <<"-"," ","a">>, <<">"," ","q">>, <<"<","i",">">>, <<"<","P",">">> },
      { <<"|","a","|","b","|">>, <<"|","-","|">>, <<" ","|","c","|"," ">>,
        <<"|">>, <<"t">>, <<>> },
      { <<"-"," ","a">>, <<"*"," ","b">>, <<"1","."," ","c">>,
        <<" ","2","."," ","d">>, <<"t">>, <<>> },
      { <<">"," ","a">>, <<" ",">"," ","b">>, <<">","c">>, <<">"," ">>,
        <<"t">>, <<>> },
      { <<"#","#"," ","a"," ","{","#","x","}">>,
        <<"#"," ","b"," ","{","#","y","}">>,
        <<"#","#","#","#"," ","c"," ","{","#","z","}">>,
        <<"#","#","#","#","#","#","#"," ","d"," ","{","#","w","}">>,
        <<"#","#"," ","a"," ","{","#","x","}"," ","t">>,
        <<"#","#"," ","!"," ","{","#","}">>,
        <<"#","#","#"," ","e">>, <<"t">> },
      { <<"*"," ","*","c","*">>, <<"-"," ","[","l","]","(","u",")">>,
        <<"1","."," ","*","*","b","*","*">>, <<"t"," ","{","#","x","}">>,
        <<"{","#","x","}">>, <<"t">> } }

BlkDocs ==
    { Join(ls, <<NL>>) :
        ls \in UNION { [1..n -> F] : n \in 1..MaxBlkLines, F \in BlkFamilies } }

InitBlk ==
    /\ pc = "start"
    /\ markdown \in BlkDocs
    /\ exists = [p \in {} |-> "A"]
    /\ base_path = <<>>
    /\ toc = None
    /\ toc2 = None
    /\ page = None
    /\ conv = None
    /\ html = None
    /\ report = None
    /\ calls = None
    /\ list_pass = None
    /\ raised = ""
    /\ returned = None

\* html = markdown_to_html_internal(markdown, base_path)
CallMarkdownToHtmlInternal ==
    /\ pc = "start"
    /\ \E o \in {MarkdownToHtmlInternal(markdown, base_path, exists)} :
           /\ html' = IF o.raised = "" THEN o ELSE html
           /\ raised' = o.raised
           /\ pc' = IF o.raised = "" THEN "html" ELSE "raised"
    /\ UNCHANGED <<markdown, exists, base_path, toc, toc2, page, conv,
                   report, calls, list_pass, returned>>

NextBlk == CallMarkdownToHtmlInternal

SpecBlk == InitBlk /\ [][NextBlk]_vars

-----------------------------------------------------------------------------
(* The runs of generate_html_report: a short content, up to MaxDescriptors *)
(* figure and diagram descriptors in all, and the files that exist; the    *)
(* writers of the repository put files there before the report is built    *)
(* and generate_pdf writes the report.                                     *)

MaxDescriptors == 2

\* The inputs of generate_html_report and of the writers: descriptors of an
\* svg file, a png file, and an svg file with a capital suffix, no caption
\* and a path written with '..' and './'; one title; no metadata and
\* metadata with both keys; the date the clock gives; the topics, the
\* directory and the counts given to fetch_placeholder_images; the kinds of
\* drawing, the data and the output path given to create_diagram.py; and
\* the output paths given to generate_pdf, one of them without a name.
RepInputs ==
    [ descriptors |->
          { [path |-> <<"f","_","1",".","s","v","g">>, caption |-> <<"c">>],
            [path |-> <<"g",".","p","n","g">>, caption |-> <<"d">>],
            [path |-> <<"d","/",".",".","/",".","/","h",".","S","V","G">>,
             caption |-> <<>>] },
      title    |-> { <<"T">> },
      metadata |-> { <<>>, [date |-> <<"D">>, author |-> <<"A">>] },
      today    |-> { <<"2","0","2","6","-","0","1","-","0","1">> },
      topic    |-> { <<"f">>, <<"f"," ","1">> },
      output_dir |-> { <<".">> },
      count    |-> { 0, 1 },
      drawing  |-> { [type |-> "bar_chart", data |-> <<>>],
                     [type |-> "bar_chart",
                      data |-> << << <<DictKey.label, <<"d">>>>,
                                     <<DictKey.value, <<"1">>>> >> >>],
                     [type |-> "flowchart", data |-> <<>>],
                     [type |-> "flowchart", data |-> << <<"d">> >>] },
      chart    |-> { <<"f","_","1",".","s","v","g">> },
      output   |-> { <<"o","u","t",".","p","d","f">>, <<".">> } ]

\* The lists of figure descriptors and of diagram descriptors of one call.
DescriptorLists ==
    { ls \in [images : UNION { [1..n -> RepInputs.descriptors]
                                   : n \in 0..MaxDescriptors },
              diagrams : UNION { [1..n -> RepInputs.descriptors]
                                   : n \in 0..MaxDescriptors }] :
        Len(ls.images) + Len(ls.diagrams) <= MaxDescriptors }

\* The content, the base_path and the file system of a run: contents
\* without and with a header that enters the TOC, no base_path, and no
\* file, the svg files beside the directory d, or the first svg file and
\* the png file beside d and a directory with the name of the second svg
\* file; a content with an image reference, the root directory as
\* base_path, and the svg file there or nowhere.
RepWorlds ==
    [ content : { <<"t">>, <<"#","#"," ","a","\n","\n","t">> },
      base_path : { <<>> },
      exists : { [p \in {} |-> "A"],
                 (<<"/","w","/","d">> :> "dir")
                     @@ [p \in { <<"/","w","/","f","_","1",".","s","v","g">>,
                                 <<"/","w","/","h",".","S","V","G">> }
                           |-> "A"],
                 (<<"/","w","/","d">> :> "dir")
                     @@ (<<"/","w","/","h",".","S","V","G">> :> "dir")
                     @@ [p \in { <<"/","w","/","f","_","1",".","s","v","g">>,
                                 <<"/","w","/","g",".","p","n","g">> }
                           |-> "A"] } ]
    \cup
    [ content : { <<"!","[","a","]","(","f","_","1",".","s","v","g",")">> },
      base_path : { <<"/">> },
      exists : { [p \in {} |-> "A"],
                 [p \in { <<"/","f","_","1",".","s","v","g">> } |-> "A"] } ]

InitRep ==
    /\ pc = "start"
    /\ \E w \in RepWorlds : /\ markdown = w.content
                            /\ base_path = w.base_path
                            /\ exists = w.exists
    /\ toc = None
    /\ toc2 = None
    /\ page = None
    /\ conv = None
    /\ html = None
    /\ report = None
    /\ calls = None
    /\ list_pass = None
    /\ raised = ""
    /\ returned = None

\* result = create_*_svg(data, title, output_path) of create_diagram.py
CallCreateDiagram ==
    /\ pc = "start"
    /\ \E drawing \in RepInputs.drawing,
          title \in RepInputs.title, output_path \in RepInputs.chart :
           \E o \in {CreateDiagram(drawing.type, drawing.data, title,
                                   output_path, exists)} :
               /\ exists' = o.exists
               /\ raised' = o.raised
               /\ returned' = o.result
               /\ pc' = IF o.raised = "" THEN pc ELSE "raised"
    /\ UNCHANGED <<markdown, base_path, toc, toc2, page, conv, html,
                   report, calls, list_pass>>

\* images = fetch_placeholder_images(topic, output_dir, count)
CallFetchPlaceholderImages ==
    /\ pc = "start"
    /\ \E topic \in RepInputs.topic, output_dir \in RepInputs.output_dir,
          count \in RepInputs.count :
           \E o \in {FetchPlaceholderImages(topic, output_dir, count,
                                            exists)} :
               /\ exists' = o.exists
               /\ raised' = o.raised
               /\ returned' = IF o.raised = "" THEN o.result ELSE None
               /\ pc' = IF o.raised = "" THEN pc ELSE "raised"
    /\ UNCHANGED <<markdown, base_path, toc, toc2, page, conv, html,
                   report, calls, list_pass>>

\* html = generate_html_report(title, content, images, diagrams, metadata,
\*                             base_path)
CallGenerateHtmlReport ==
    /\ pc = "start"
    /\ \E title \in RepInputs.title, ls \in DescriptorLists,
          metadata \in RepInputs.metadata, today \in RepInputs.today :
           \E o \in {GenerateHtmlReport(title, markdown, ls.images,
                                        ls.diagrams, metadata, base_path,
                                        today, exists)} :
               /\ report' = IF o.raised = "" THEN o ELSE report
               /\ raised' = o.raised
               /\ pc' = IF o.raised = "" THEN "report" ELSE "raised"
    /\ returned' = None
    /\ UNCHANGED <<markdown, exists, base_path, toc, toc2, page, conv, html,
                   calls, list_pass>>

\* success = generate_pdf(html, output_path), html being the report;
\* WEASYPRINT_AVAILABLE is what the import of lines 15-19 gave.
CallGeneratePdf ==
    /\ pc = "report"
    /\ \E output_path \in RepInputs.output, WEASYPRINT_AVAILABLE \in BOOLEAN :
           \E o \in {GeneratePdf(report.body, output_path,
                                 WEASYPRINT_AVAILABLE, exists)} :
               /\ exists' = o.exists
               /\ raised' = o.raised
               /\ returned' = o.result
               /\ pc' = IF o.raised # "" THEN "raised"
                        ELSE IF WEASYPRINT_AVAILABLE THEN "pdf" ELSE "html"
    /\ UNCHANGED <<markdown, base_path, toc, toc2, page, conv, html, report,
                   calls, list_pass>>

NextRep ==
    \/ CallCreateDiagram
    \/ CallFetchPlaceholderImages
    \/ CallGenerateHtmlReport
    \/ CallGeneratePdf

SpecRep == InitRep /\ [][NextRep]_vars

-----------------------------------------------------------------------------
(* The runs of download_images.py: images are downloaded, optimized, and   *)
(* both for a list of urls, on a file system that the calls before have    *)
(* written to.                                                             *)

\* At most this many urls are given to process_images.
MaxUrls == 2

\* The inputs of the calls: the url; what a server gives, a failure, a
\* page that is no image, a drawing, a picture with transparency, a wide
\* picture whose content type is written in capitals, and a small picture;
\* the directories, one of which the other lies in; and max_width.
DlInputs ==
    [ url |-> { <<"h","t","t","p",":","/","/","x","/","a">> },
      response |->
          { [ok |-> FALSE, content_type |-> <<>>, content |-> ""],
            [ok |-> TRUE, content_type |-> <<"t","e","x","t","/","h","t","m",
                                             "l">>,
             content |-> "A"],
            [ok |-> TRUE, content_type |-> <<"i","m","a","g","e","/","s","v",
                                             "g","+","x","m","l">>,
             content |-> "svg_content"],
            [ok |-> TRUE, content_type |-> <<"i","m","a","g","e","/","p","n",
                                             "g">>,
             content |-> "PNG RGBA 400x300"],
            [ok |-> TRUE, content_type |-> <<"I","m","a","g","e","/","J","P",
                                             "E","G">>,
             content |-> "JPEG RGB 1000x300"],
            [ok |-> TRUE, content_type |-> <<"i","m","a","g","e","/","g","i",
                                             "f">>,
             content |-> "GIF P 400x50"] },
      pool_dir |-> { <<"p">>, <<"p","/","o">> },
      output_dir |-> { <<"p">>, <<"p","/","o">> },
      max_width |-> { 800 } ]

\* The file system at the start: empty, a file where a directory is to
\* be, the directory p, and p with the directory o in it.
InitDl ==
    /\ pc = "download"
    /\ markdown = None
    /\ exists \in { [p \in {} |-> "A"],
                    (<<"/","w","/","p">> :> "A"),
                    (<<"/","w","/","p">> :> "dir"),
                    (<<"/","w","/","p","/","o">> :> "dir") }
    /\ base_path = <<>>
    /\ toc = None
    /\ toc2 = None
    /\ page = None
    /\ conv = None
    /\ html = None
    /\ report = None
    /\ calls = None
    /\ list_pass = None
    /\ raised = ""
    /\ returned = None

\* result = download_image(url, output_dir)
CallDownloadImage ==
    /\ pc = "download"
    /\ \E url \in DlInputs.url, output_dir \in DlInputs.pool_dir,
          response \in DlInputs.response :
           \E o \in {DownloadImage(url, output_dir, response, exists)} :
               /\ exists' = o.exists
               /\ returned' = o.result
    /\ pc' = "downloaded"
    /\ UNCHANGED <<markdown, base_path, toc, toc2, page, conv, html,
                   report, calls, list_pass, raised>>

\* result = optimize_image(input_path, output_dir, max_width, quality), for
\* the path a download returned.
CallOptimizeImage ==
    /\ pc = "downloaded"
    /\ returned # None
    /\ \E output_dir \in DlInputs.output_dir,
          max_width \in DlInputs.max_width :
           \E o \in {OptimizeImage(returned.path, output_dir, max_width,
                                   exists)} :
               /\ exists' = o.exists
               /\ returned' = o.result
    /\ pc' = "optimized"
    /\ UNCHANGED <<markdown, base_path, toc, toc2, page, conv, html,
                   report, calls, list_pass, raised>>

\* result = process_images(urls, pool_dir, output_dir, max_width, quality)
CallProcessImages ==
    /\ pc = "download"
    /\ \E n \in 0..MaxUrls :
           \E urls \in [1..n -> DlInputs.url],
              responses \in [1..n -> DlInputs.response],
              pool_dir \in DlInputs.pool_dir,
              output_dir \in DlInputs.output_dir,
              max_width \in DlInputs.max_width :
               \E o \in {ProcessImages(urls, pool_dir, output_dir, max_width,
                                       responses, exists)} :
                   /\ exists' = o.exists
                   /\ raised' = o.raised
                   /\ returned' = IF o.raised = "" THEN o.result ELSE None
                   /\ pc' = IF o.raised = "" THEN "processed" ELSE "raised"
    /\ UNCHANGED <<markdown, base_path, toc, toc2, page, conv, html,
                   report, calls, list_pass>>

NextDl == CallDownloadImage \/ CallOptimizeImage \/ CallProcessImages

SpecDl == InitDl /\ [][NextDl]_vars

-----------------------------------------------------------------------------
(* The runs of markdown_to_html on the example of the specification and on *)
(* the documents that keep some of its lines.                              *)

ExampleLines ==
    << <<"#","#"," ","I","n","t","r","o">>, <<>>, <<"H","e","l","l","o"," ",
          "*","*","w","o","r","l","d","*","*",".">>, <<>>, <<"|"," ","A"," ",
                "|"," ","B"," ","|">>,
       <<"|","-","-","-","|","-","-","-","|">>, <<"|"," ","1"," ","|"," ",
             "2"," ","|">> >>

\* The lines of the example whose index is in keep, in order.
RECURSIVE KeepLines(_, _)
KeepLines(keep, i) ==
    IF i > Len(ExampleLines) THEN <<>>
    ELSE (IF i \in keep THEN <<ExampleLines[i]>> ELSE <<>>)
             \o KeepLines(keep, i + 1)

Example == Join(ExampleLines, <<NL>>)

ExampleDocs ==
    { Join(KeepLines(keep, 1), <<NL>>) :
        keep \in SUBSET (1..Len(ExampleLines)) }

InitPage ==
    /\ pc = "start"
    /\ markdown \in ExampleDocs
    /\ exists = [p \in {} |-> "A"]
    /\ base_path = <<>>
    /\ toc = None
    /\ toc2 = None
    /\ page = None
    /\ conv = None
    /\ html = None
    /\ report = None
    /\ calls = None
    /\ list_pass = None
    /\ raised = ""
    /\ returned = None

\* html = markdown_to_html(markdown, base_path, include_toc)
ConvertPage ==
    /\ pc = "start"
    /\ \E include_toc \in BOOLEAN :
           \E o \in {MarkdownToHtml(markdown, base_path, exists,
                                    include_toc)} :
               /\ page' = IF o.raised = "" THEN o ELSE page
               /\ raised' = o.raised
               /\ pc' = IF o.raised = "" THEN "converted" ELSE "raised"
    /\ UNCHANGED <<markdown, exists, base_path, toc, toc2, conv, html,
                   report, calls, list_pass, returned>>

NextPage == ConvertPage

SpecPage == InitPage /\ [][NextPage]_vars

-----------------------------------------------------------------------------
(* Two calls of markdown_to_html whose steps interleave.  A frame holds    *)
(* the locals of its call: the parameter markdown, and the locals lines,   *)
(* toc_items, modified_lines and header_counts that generate_toc creates   *)
(* at lines 59-62.  The code has no module-level variable.                 *)

MaxCallLines == 2

\* Documents of up to MaxCallLines lines: a header whose slug repeats, a
\* header whose title has no slug, and plain text.
CallDocs ==
    { Join(ls, <<NL>>) :
        ls \in UNION { [1..n -> { <<"#","#"," ","a">>,
                                  <<"#","#","#"," ","!">>,
                                  <<"t">> }] : n \in 1..MaxCallLines } }

InitCalls ==
    /\ pc = "calls"
    /\ markdown = None
    /\ exists = [p \in {} |-> "A"]
    /\ base_path = <<>>
    /\ toc = None
    /\ toc2 = None
    /\ page = None
    /\ conv = None
    /\ html = None
    /\ report = None
    /\ calls \in [{1, 2} -> { [at |-> "idle", doc |-> d, markdown |-> d,
                                lines |-> <<>>, i |-> 0, st |-> TocStart,
                                toc_md |-> <<>>, toc_html |-> <<>>,
                                html |-> <<>>, raised |-> ""]
                              : d \in CallDocs }]
    /\ list_pass = None
    /\ raised = ""
    /\ returned = None

\* As EnterGenerateToc, with one table of header counts for the process:
\* the call starts from the table the other call has filled so far.
EnterGenerateToc_SharedCounts(cs, c) ==
    [cs EXCEPT ![c].at = "generate_toc",
               ![c].lines = Split(cs[c].markdown, NL),
               ![c].i = 1,
               ![c].st = [TocStart EXCEPT
                            !.header_counts = cs[3 - c].st.header_counts]]

\* Lines 59-62: generate_toc is entered and creates its locals.
EnterGenerateToc(cs, c) ==
    [cs EXCEPT ![c].at = "generate_toc",
               ![c].lines = Split(cs[c].markdown, NL),
               ![c].i = 1,
               ![c].st = TocStart]

\* toc_md, markdown = generate_toc(markdown), up to the loop.
CallToc(c) ==
    /\ pc = "calls"
    /\ calls[c].at = "idle"
    /\ calls' = EnterGenerateToc(calls, c)
    /\ UNCHANGED <<pc, markdown, exists, base_path, toc, toc2, page, conv,
                   html, report, list_pass, raised,
                   returned>>

\* One iteration of the loop of lines 64-92.
TocStep(c) ==
    /\ pc = "calls"
    /\ calls[c].at = "generate_toc"
    /\ calls[c].i <= Len(calls[c].lines)
    /\ calls' = [calls EXCEPT
                   ![c].st = TocLine(@, calls[c].lines[calls[c].i]),
                   ![c].i = @ + 1]
    /\ UNCHANGED <<pc, markdown, exists, base_path, toc, toc2, page, conv,
                   html, report, list_pass, raised,
                   returned>>

\* Lines 94-98 and 107: generate_toc returns, toc_md and markdown are bound.
ReturnToc(c) ==
    /\ pc = "calls"
    /\ calls[c].at = "generate_toc"
    /\ calls[c].i > Len(calls[c].lines)
    /\ calls' = [calls EXCEPT
                   ![c].at = "toc_returned",
                   ![c].toc_md =
                       IF calls[c].st.toc_items = <<>> THEN <<>>
                       ELSE Html.TocHead
                                \o Join(calls[c].st.toc_items, <<NL>>)
                                \o Html.TocFoot,
                   ![c].markdown =
                       IF calls[c].st.toc_items = <<>> THEN @
                       ELSE Join(calls[c].st.modified_lines, <<NL>>)]
    /\ UNCHANGED <<pc, markdown, exists, base_path, toc, toc2, page, conv,
                   html, report, list_pass, raised,
                   returned>>

\* Lines 108-111: the TOC text is converted on its own; an exception of
\* the conversion ends the call.
RenderToc(c) ==
    /\ pc = "calls"
    /\ calls[c].at = "toc_returned"
    /\ \E o \in {TocHtml([has_nav |-> calls[c].toc_md # <<>>,
                           toc_in |-> calls[c].toc_md],
                          base_path, exists)} :
           calls' = IF o.raised # ""
                    THEN [calls EXCEPT ![c].at = "raised",
                                       ![c].raised = o.raised]
                    ELSE [calls EXCEPT ![c].at = "toc_rendered",
                                       ![c].toc_html = o.html]
    /\ UNCHANGED <<pc, markdown, exists, base_path, toc, toc2, page, conv,
                   html, report, list_pass, raised,
                   returned>>

\* Lines 113-115: the document is converted and the call returns, or an
\* exception of the conversion ends it.
RenderBody(c) ==
    /\ pc = "calls"
    /\ calls[c].at = "toc_rendered"
    /\ \E o \in {MarkdownToHtmlInternal(calls[c].markdown, base_path,
                                         exists)} :
           calls' = IF o.raised # ""
                    THEN [calls EXCEPT ![c].at = "raised",
                                       ![c].raised = o.raised]
                    ELSE [calls EXCEPT ![c].at = "returned",
                                       ![c].html = calls[c].toc_html
                                                       \o o.html]
    /\ UNCHANGED <<pc, markdown, exists, base_path, toc, toc2, page, conv,
                   html, report, list_pass, raised,
                   returned>>

NextCalls ==
    \E c \in DOMAIN calls :
        CallToc(c) \/ TocStep(c) \/ ReturnToc(c) \/ RenderToc(c)
            \/ RenderBody(c)

SpecCalls == InitCalls /\ [][NextCalls]_vars

-----------------------------------------------------------------------------
(* The list pass line by line: lines 312-354 with the loop of line 317    *)
(* taken one input line at a time.  The pass reads any text: the lines of  *)
(* a text are items of both kinds, indented items, plain and empty lines,  *)
(* and lines that are themselves list tags or hold one in an item.         *)

MaxListLines == 3

ListDocs ==
    { Join(ls, <<NL>>) :
        ls \in UNION { [1..n -> { <<"-"," ","a">>, <<"*"," ","b">>, <<"1",
              "."," ","c">>, <<" ","2","."," ","d">>,
                                  <<"t">>, <<>>, <<"<","u","l",">">>, <<"-",
                                        " ","<","/","o","l",">">> }]
                         : n \in 1..MaxListLines } }

\* Lines 312-315.  items and copied are history: the positions of result
\* written by an item branch (lines 327, 337) and by line 345.
InitList ==
    /\ pc = "list"
    /\ markdown = None
    /\ exists = [p \in {} |-> "A"]
    /\ base_path = <<>>
    /\ toc = None
    /\ toc2 = None
    /\ page = None
    /\ conv = None
    /\ html = None
    /\ report = None
    /\ calls = None
    /\ list_pass \in { [at |-> "loop", lines |-> Split(d, NL), i |-> 1,
                        st |-> [result |-> <<>>, in_ul |-> FALSE,
                                in_ol |-> FALSE],
                        items |-> {}, copied |-> {}, html |-> <<>>]
                       : d \in ListDocs }
    /\ raised = ""
    /\ returned = None

\* Lines 317-347, one iteration.
ListStep ==
    /\ pc = "list"
    /\ list_pass.at = "loop"
    /\ list_pass.i <= Len(list_pass.lines)
    /\ list_pass' =
          [list_pass EXCEPT
              !.st = ListLine(@, list_pass.lines[list_pass.i]),
              !.i = @ + 1,
              !.items =
                  IF \/ IsUnordered(Strip(list_pass.lines[list_pass.i]))
                     \/ OrderedMark(Strip(list_pass.lines[list_pass.i])) # 0
                  THEN @ \cup {Len(ListLine(list_pass.st,
                                   list_pass.lines[list_pass.i]).result)}
                  ELSE @,
              !.copied =
                  IF \/ IsUnordered(Strip(list_pass.lines[list_pass.i]))
                     \/ OrderedMark(Strip(list_pass.lines[list_pass.i])) # 0
                  THEN @
                  ELSE @ \cup {Len(ListLine(list_pass.st,
                                   list_pass.lines[list_pass.i]).result)}]
    /\ UNCHANGED <<pc, markdown, exists, base_path, toc, toc2, page, conv,
                   html, report, calls, raised,
                   returned>>

\* Lines 349-354, after the last line.
ListEnd ==
    /\ pc = "list"
    /\ list_pass.at = "loop"
    /\ list_pass.i > Len(list_pass.lines)
    /\ list_pass' =
          [list_pass EXCEPT
              !.at = "done",
              !.st = CloseOpen(@),
              !.html = Join(CloseOpen(list_pass.st).result, <<NL>>)]
    /\ UNCHANGED <<pc, markdown, exists, base_path, toc, toc2, page, conv,
                   html, report, calls, raised,
                   returned>>

NextList == ListStep \/ ListEnd

SpecList == InitList /\ [][NextList]_vars

-----------------------------------------------------------------------------
(* The whole model: a run converts one document of either family.          *)

Init ==
    InitToc \/ InitImg \/ InitBlk \/ InitRep \/ InitDl \/ InitPage
        \/ InitCalls \/ InitList

Next ==
    NextToc \/ NextImg \/ NextBlk \/ NextRep \/ NextDl \/ NextPage
        \/ NextCalls \/ NextList

Spec == Init /\ [][Next]_vars

-----------------------------------------------------------------------------
(* Claims about generate_toc.                                              *)

\* What the claims call a header line of level L: L '#', then white space,
\* then at least one more character.
IsHeaderLine(line, L) ==
    /\ Len(line) >= L + 2
    /\ \A i \in 1..L : line[i] = "#"
    /\ line[L + 1] \in WhiteSpace

Participates(line) == IsHeaderLine(line, 2) \/ IsHeaderLine(line, 3)

InLines == Split(markdown, NL)

\* The input lines that participate, in document order.
ParticipatingLines == SelectSeq(InLines, Participates)

\* The anchor a rewritten header line ends with: the text between its last
\* "{#" and its closing "}".
WrittenAnchor(line) ==
    Slice(line, LastOf({k \in 1..Len(line) : StartsAt(line, k, <<"{", "#">>)}) + 2,
          Len(line) - 1)

\* The anchors written into the rewritten header lines, in document order.
WrittenAnchors(text) ==
    LET hs == SelectSeq(Split(text, NL), Participates)
    IN  [i \in DOMAIN hs |-> WrittenAnchor(hs[i])]

\* The entries of a TOC fragment: its lines between head and foot.
TocEntries(toc_md) ==
    IF toc_md = <<>> THEN <<>>
    ELSE Split(Slice(toc_md, Len(Html.TocHead) + 1, Len(toc_md) - Len(Html.TocFoot)), NL)

\* The link target of a TOC entry: the text between its last "](#" and ")".
LinkTarget(entry) ==
    Slice(entry,
          LastOf({k \in 1..Len(entry) : StartsAt(entry, k, <<"]", "(", "#">>)}) + 3,
          Len(entry) - 1)

\* C1: after generate_toc no two level-2/level-3 header lines carry the
\* same anchor: the anchors written into the annotations and into the TOC
\* links are pairwise distinct.
C1_AnchorsDistinct ==
    pc = "toc" =>
        LET as == WrittenAnchors(toc.text)
            es == TocEntries(toc.toc_md)
        IN  /\ \A i, j \in DOMAIN as : i # j => as[i] # as[j]
            /\ \A i, j \in DOMAIN es : i # j => LinkTarget(es[i]) # LinkTarget(es[j])

\* The number of headers before the i-th that have its base slug.
EarlierSame(heads, i) ==
    Cardinality({j \in 1..(i - 1) : heads[j].base = heads[i].base})

\* C2: of the headers that derive the same base slug s, the first in
\* document order gets the anchor s and the k-th later one gets s-k,
\* whatever other headers stand between them.
C2_SuffixInDocumentOrder ==
    pc = "toc" =>
        LET as == WrittenAnchors(toc.text) IN
        /\ Len(as) = Len(toc.heads)
        /\ \A i \in DOMAIN toc.heads :
             LET k == EarlierSame(toc.heads, i)
                 s == toc.heads[i].base
             IN  as[i] = IF k = 0 THEN s ELSE s \o <<"-", Digits[k + 1]>>

\* Three headers of one base slug, with a header of another slug between
\* the first and the last of them.
C2_Witness ==
    /\ pc = "toc"
    /\ \E i, j, k, m \in DOMAIN toc.heads :
         /\ i < j /\ j < k /\ i < m /\ m < k
         /\ toc.heads[i].base = toc.heads[j].base
         /\ toc.heads[j].base = toc.heads[k].base
         /\ toc.heads[m].base # toc.heads[i].base

\* C3: generate_toc on the text a first run rewrote gives that text again:
\* every participating line carries exactly one annotation, and titles and
\* anchors are those of the first run.
C3_RerunIsIdentity ==
    pc = "toc2" =>
        /\ toc2.text = toc.text
        /\ \A i \in DOMAIN toc2.heads : toc2.heads[i].title = toc.heads[i].title
        /\ LET hs == SelectSeq(Split(toc2.text, NL), Participates)
           IN  \A i \in DOMAIN hs : CountOcc(hs[i], <<"{", "#">>) = 1

\* The number of spaces an entry of the TOC starts with.
RECURSIVE SpaceRun(_, _)
SpaceRun(s, i) ==
    IF i > Len(s) \/ s[i] # " " THEN 0 ELSE 1 + SpaceRun(s, i + 1)

LevelOf(line) == IF IsHeaderLine(line, 2) THEN 2 ELSE 3

\* C4: the TOC has one entry per level-2 or level-3 header line, in
\* document order, indented by depth 0 for level 2 and depth 1 for level 3
\* and linking to that line's anchor; a header line of level 1 or of level
\* 4 to 6 gets no entry and no annotation.
C4_TocEntries ==
    pc = "toc" =>
        LET es   == TocEntries(toc.toc_md)
            hs   == ParticipatingLines
            out  == Split(toc.text, NL)
            as   == WrittenAnchors(toc.text)
        IN  /\ Len(es) = Len(hs)
            /\ \A i \in DOMAIN es :
                 /\ SpaceRun(es[i], 1) = 2 * (LevelOf(hs[i]) - 2)
                 /\ StartsAt(es[i], SpaceRun(es[i], 1) + 1, <<"-", " ", "[">>)
                 /\ LinkTarget(es[i]) = as[i]
            /\ \A i \in DOMAIN InLines :
                 (\E L \in {1, 4, 5, 6} : IsHeaderLine(InLines[i], L))
                     => out[i] = InLines[i]

\* A document with header lines of the levels 1, 2, 3 and 4.
C4_Witness ==
    /\ pc = "toc"
    /\ \A L \in 1..4 : \E i \in DOMAIN InLines : IsHeaderLine(InLines[i], L)

\* C5: generate_toc returns every line that is not a level-2/level-3
\* header unchanged and in its place; when no line qualifies it returns the
\* empty fragment and the input text, and markdown_to_html emits no TOC
\* container.
C5_OtherLinesUnchanged ==
    /\ pc = "toc" =>
          LET out == Split(toc.text, NL) IN
          /\ Len(out) = Len(InLines)
          /\ \A i \in DOMAIN InLines :
               ~Participates(InLines[i]) => out[i] = InLines[i]
          /\ ParticipatingLines = <<>> =>
               toc.toc_md = <<>> /\ toc.text = markdown
    /\ pc = "page" /\ ParticipatingLines = <<>> =>
          ~page.has_nav /\ page.body_in = markdown

\* A document with a header that is rewritten between a blank line and a
\* line of text.
C5_Witness ==
    /\ pc = "toc"
    /\ \E i, j, k \in DOMAIN InLines :
         /\ i < j /\ j < k
         /\ InLines[i] = <<>>
         /\ Participates(InLines[j])
         /\ InLines[k] = <<"t">>

-----------------------------------------------------------------------------
(* Claims about image references and image columns.                        *)

\* The image references of the input, as the image pattern reads them.
InImages == FindImages(markdown)

\* The index at which line i of the lines ls starts in their joined text.
RECURSIVE LineStart(_, _)
LineStart(ls, i) == IF i = 1 THEN 1 ELSE LineStart(ls, i - 1) + Len(ls[i - 1]) + 1

\* The substitutions among subs that replaced a character of line i.
Covering(subs, ls, i) ==
    {k \in DOMAIN subs :
        /\ subs[k].start <= LineStart(ls, i) + Len(ls[i]) - 1
        /\ LineStart(ls, i) <= subs[k].start + Len(subs[k].whole) - 1}

\* The image references a sequence of substitutions consumed, in order.
RECURSIVE Consumed(_)
Consumed(subs) ==
    IF subs = <<>> THEN <<>> ELSE Head(subs).images \o Consumed(Tail(subs))

Occurrences(seq, x) == Cardinality({k \in DOMAIN seq : seq[k] = x})

SameBag(a, b) ==
    \A x \in Range(a) \cup Range(b) : Occurrences(a, x) = Occurrences(b, x)

\* An image reference as it is written: ![alt](path)
RefText(im) == <<"!", "[">> \o im.alt \o <<"]", "(">> \o im.path \o <<")">>

\* C6: for every image reference of the document whose file does not
\* exist, alone on a line, beside other image references or in an explicit
\* columns span, the output holds a missing-image placeholder with that
\* reference's alt text.
C6_MissingImagePlaceholder ==
    pc = "images" =>
        \A k \in DOMAIN InImages :
            PathExists(PathUnder(base_path, InImages[k].path), exists)
                    = "False" =>
                Contains(conv.images, Html.MissingA \o InImages[k].alt \o Html.MissingB)

\* C7: outside explicit columns spans, a line with exactly one image
\* reference yields no column group and its image goes through the
\* single-image substitution; a line with two or more image references is
\* replaced, as a whole and alone, by exactly one column group that takes
\* all image references of the line.
C7_ColumnHeuristic ==
    pc = "images" /\ conv.column_subs = <<>> =>
        \A i \in DOMAIN InLines :
            LET refs  == FindImages(InLines[i])
                cover == Covering(conv.inline_subs, InLines, i)
            IN  /\ Len(refs) = 1 =>
                     /\ cover = {}
                     /\ \E k \in DOMAIN conv.image_subs :
                            Contains(conv.image_subs[k].whole, RefText(refs[1]))
                /\ Len(refs) >= 2 =>
                     /\ Cardinality(cover) = 1
                     /\ \A k \in cover :
                            /\ conv.inline_subs[k].whole = InLines[i]
                            /\ conv.inline_subs[k].images = refs
                            /\ StartsAt(conv.inline_subs[k].out, 1, Html.DivOpen)

\* C8: the text one inferred column group replaces lies in a single line:
\* it holds no line break.
C8_InferenceWithinLine ==
    pc = "images" =>
        \A k \in DOMAIN conv.inline_subs :
            NL \notin Range(conv.inline_subs[k].whole)

\* By how much the substitutions subs that began before index p of their
\* input moved the text that follows them.
RECURSIVE Moved(_, _)
Moved(subs, p) ==
    IF subs = <<>> THEN 0
    ELSE (IF Head(subs).start < p
          THEN Len(Head(subs).out) - Len(Head(subs).whole) ELSE 0)
             + Moved(Tail(subs), p)

\* The explicit spans that hold no image reference.
EmptySpans == {k \in DOMAIN conv.column_subs : conv.column_subs[k].images = <<>>}

\* The index at which the k-th explicit span stands in the output of line
\* 144 when it was returned as it is.
SpanAt(k) ==
    conv.column_subs[k].start
        + Moved(conv.column_subs, conv.column_subs[k].start)

\* The matches of line 168 that took a character of the k-th explicit
\* span.
Inferred(k) ==
    {j \in DOMAIN conv.inline_subs :
        /\ conv.inline_subs[j].start
               <= SpanAt(k) + Len(conv.column_subs[k].whole) - 1
        /\ SpanAt(k)
               <= conv.inline_subs[j].start
                      + Len(conv.inline_subs[j].whole) - 1}

\* C9, as stated: an explicit columns span that holds no image reference
\* is left as it is by the column stage, the substitutions of lines 144
\* and 168: its markers and its content stand verbatim in the output of
\* the stage.
C9_EmptySpanVerbatim ==
    pc = "images" =>
        \A k \in EmptySpans :
            /\ conv.column_subs[k].out = conv.column_subs[k].whole
            /\ Contains(conv.inline, conv.column_subs[k].whole)

\* C9, amended: an explicit columns span that holds no image reference is
\* returned as it is by the substitution of explicit spans, which writes a
\* column container only for the spans that hold an image reference; and
\* the span stands verbatim, at its place, in the output of the column
\* stage unless a match of the inferred-column substitution of line 168, a
\* line with two or more image references, takes a character of it.
C9_EmptySpanUntouched ==
    pc = "images" =>
        /\ \A k \in EmptySpans :
             /\ conv.column_subs[k].out = conv.column_subs[k].whole
             /\ StartsAt(conv.columns, SpanAt(k), conv.column_subs[k].whole)
             /\ Inferred(k) = {} =>
                    StartsAt(conv.inline,
                             SpanAt(k) + Moved(conv.inline_subs, SpanAt(k)),
                             conv.column_subs[k].whole)
        /\ CountOcc(conv.columns, Html.DivOpen)
               = Len(conv.column_subs) - Cardinality(EmptySpans)
        /\ EmptySpans = DOMAIN conv.column_subs => conv.columns = markdown

\* An explicit span without an image reference that follows a line which
\* the inferred-column substitution replaced, and that no match of that
\* substitution touched.
C9_Witness ==
    /\ pc = "images"
    /\ \E k \in EmptySpans :
         /\ Inferred(k) = {}
         /\ \E j \in DOMAIN conv.inline_subs :
                conv.inline_subs[j].start < SpanAt(k)
         /\ Moved(conv.inline_subs, SpanAt(k)) # 0

\* C10: every image reference of the input is consumed by exactly one of
\* the three substitutions, and the single-image substitution matches only
\* text of the input, never text a column substitution wrote.
C10_NoDoubleSubstitution ==
    pc = "images" =>
        /\ SameBag(Consumed(conv.column_subs) \o Consumed(conv.inline_subs)
                       \o Consumed(conv.image_subs),
                   InImages)
        /\ \A k \in DOMAIN conv.image_subs :
               Contains(markdown, conv.image_subs[k].whole)

-----------------------------------------------------------------------------
(* Claims about the paragraph stage.                                       *)

\* What opens a table, a list, a quote or a figure.
StructuralOpens ==
    { Html.TableOpen, Html.UlOpen, Html.OlOpen, Html.BqOpen, <<"<","f","i","g","u","r","e">> }

\* C11: the paragraph stage never wraps a structural fragment: no block
\* that was wrapped as a paragraph holds a table, a list, a blockquote or
\* a figure, also when the construct follows plain text without a blank
\* line between them.
C11_NoStructureInParagraph ==
    pc = "html" =>
        \A k \in DOMAIN html.processed :
            html.processed[k].wrapped =>
                \A tag \in StructuralOpens :
                    ~Contains(html.processed[k].out, tag)

\* What the claim has the paragraph stage write for the blocks from the
\* i-th on: nothing for an empty block, the block itself if it begins with
\* a recognized structural tag, else the block as one paragraph.
RECURSIVE ClaimedBlocks(_, _)
ClaimedBlocks(blocks, i) ==
    IF i > Len(blocks) THEN <<>>
    ELSE LET b == Strip(blocks[i]) IN
         (IF b = <<>> THEN <<>>
          ELSE IF StartsWithBlockTag(b) THEN <<b>>
          ELSE <<Html.POpen \o b \o Html.PClose>>)
             \o ClaimedBlocks(blocks, i + 1)

\* C12: a block is passed through exactly when it begins with a recognized
\* structural tag; every other non-empty block, one that begins with inline
\* markup included, is wrapped as one paragraph with its line breaks kept;
\* empty blocks are dropped.
C12_ParagraphBlocks ==
    pc = "html" =>
        html.html = Join(ClaimedBlocks(SplitStr(html.listed, <<NL, NL>>), 1),
                         <<NL>>)

-----------------------------------------------------------------------------
(* Claims about tables.                                                    *)

\* The lines the table pass reads.
TableInLines == Split(html.rules, NL)

\* A pipe-framed line: without the blanks around it, it starts and ends
\* with '|'.
PipeFramed(line) == IsTableLine(Strip(line))

\* The maximal runs of pipe-framed lines from line i on, in order, each as
\* its lines.
RECURSIVE PipeRunsFrom(_, _)
PipeRunsFrom(lines, i) ==
    IF i > Len(lines) THEN <<>>
    ELSE IF ~PipeFramed(lines[i]) THEN PipeRunsFrom(lines, i + 1)
    ELSE LET stop == FirstOf({k \in i..Len(lines) : ~PipeFramed(lines[k])})
             last == IF stop = 0 THEN Len(lines) ELSE stop - 1
         IN <<[first |-> i, last |-> last,
               lines |-> Slice(lines, i, last)]>>
                \o PipeRunsFrom(lines, last + 1)

PipeRuns == PipeRunsFrom(TableInLines, 1)

\* The text of a cell part: what stands between its opening and closing tag.
CellText(part, open, close) ==
    Slice(part, Len(open) + 1, Len(part) - Len(close))

\* The header cells a written table holds.
HeaderCellsOf(out) ==
    LET parts == Split(out, NL)
        a == FirstOf({k \in 1..Len(parts) : parts[k] = Html.TheadOpen})
        b == FirstOf({k \in 1..Len(parts) : parts[k] = Html.TheadClose})
    IN [k \in 1..(b - a - 1) |-> CellText(parts[a + k], Html.ThOpen, Html.ThClose)]

\* The body rows a written table holds from part i on, each as its cells.
RECURSIVE BodyRowsFrom(_, _)
BodyRowsFrom(parts, i) ==
    IF i > Len(parts) \/ parts[i] # Html.TrOpen THEN <<>>
    ELSE LET c == FirstOf({k \in i..Len(parts) : parts[k] = Html.TrClose}) IN
         <<[k \in 1..(c - i - 1) |->
               CellText(parts[i + k], Html.TdOpen, Html.TdClose)]>>
             \o BodyRowsFrom(parts, c + 1)

BodyRowsOf(out) ==
    LET parts == Split(out, NL)
        b == FirstOf({k \in 1..Len(parts) : parts[k] = Html.TbodyOpen})
    IN BodyRowsFrom(parts, b + 1)

IsTableOut(out) ==
    StartsAt(out, 1, Html.TableOpen)
        /\ StartsAt(out, Len(out) - Len(Html.TableClose) + 1, Html.TableClose)

\* C13: a maximal run of exactly one pipe-framed line is written unchanged,
\* as plain text; a run of exactly two lines is written as one table with
\* the header cells of its first line and no body row; whether a line or
\* the end of the input ends the run.
C13_TableFlushThreshold ==
    pc = "html" =>
        /\ Len(html.tables) = Len(PipeRuns)
        /\ \A k \in DOMAIN PipeRuns :
               LET run == PipeRuns[k]
                   out == html.tables[k].out
               IN /\ Len(run.lines) = 1 => out = run.lines[1]
                  /\ Len(run.lines) = 2 =>
                        /\ IsTableOut(out)
                        /\ CountOcc(out, Html.TableOpen) = 1
                        /\ HeaderCellsOf(out) = RowCells(Strip(run.lines[1]))
                        /\ BodyRowsOf(out) = <<>>
                        /\ CountOcc(out, Html.TdOpen) = 0

\* The cells of each line from the i-th on.
RECURSIVE CellsOfLines(_, _)
CellsOfLines(lines, i) ==
    IF i > Len(lines) THEN <<>>
    ELSE <<RowCells(Strip(lines[i]))>> \o CellsOfLines(lines, i + 1)

\* The cells of each line from the i-th on that is more than a lone '|'.
RECURSIVE CellsOfCellLines(_, _)
CellsOfCellLines(lines, i) ==
    IF i > Len(lines) THEN <<>>
    ELSE (IF Strip(lines[i]) = <<"|">> THEN <<>>
          ELSE <<RowCells(Strip(lines[i]))>>)
             \o CellsOfCellLines(lines, i + 1)

\* C14 as stated: for a run of n >= 2 lines the table has the cells of
\* line 0 as its header, nothing of line 1, and exactly one body row for
\* each of the lines 2..n-1, in order, with the cells of that line alone.
C14_OneRowPerLine ==
    pc = "html" =>
        \A k \in DOMAIN html.tables :
            LET t == html.tables[k] IN
            Len(t.buffer) >= 2 =>
                /\ HeaderCellsOf(t.out) = RowCells(t.buffer[1])
                /\ Len(BodyRowsOf(t.out)) = Len(t.buffer) - 2
                /\ BodyRowsOf(t.out) = CellsOfLines(t.buffer, 3)

\* C14, amended: for a run of n >= 2 lines the table has the cells of
\* line 0 as its header, nothing of line 1 whatever it holds, and one body
\* row, in order and with the cells of that line alone, for each of the
\* lines 2..n-1 that is more than a lone '|'; a lone '|' has no cells and
\* gets no row.
C14_OneRowPerCellLine ==
    pc = "html" =>
        /\ Len(html.tables) = Len(PipeRuns)
        /\ \A k \in DOMAIN html.tables :
               LET t == html.tables[k] IN
               /\ t.buffer = [j \in 1..Len(PipeRuns[k].lines) |->
                                 Strip(PipeRuns[k].lines[j])]
               /\ Len(t.buffer) >= 2 =>
                     /\ IsTableOut(t.out)
                     /\ Contains(html.tabled, t.out)
                     /\ HeaderCellsOf(t.out) = RowCells(t.buffer[1])
                     /\ BodyRowsOf(t.out) = CellsOfCellLines(t.buffer, 3)
                     /\ CountOcc(t.out, Html.TdOpen)
                            = Len(Join(CellsOfCellLines(t.buffer, 3), <<>>))

\* A table of four lines was written whose second line is no separator
\* and whose two body rows differ in their number of cells.
C14_Witness ==
    /\ pc = "html"
    /\ \E k \in DOMAIN html.tables :
           LET t == html.tables[k] IN
           /\ Len(t.buffer) = 4
           /\ ~IsSeparator(t.buffer[2])
           /\ RowCells(t.buffer[2]) # <<>>
           /\ Len(BodyRowsOf(t.out)) = 2
           /\ Len(BodyRowsOf(t.out)[1]) # Len(BodyRowsOf(t.out)[2])

-----------------------------------------------------------------------------
(* Claims about lists.                                                     *)

\* The lines the list pass reads.
ListInLines == Split(html.tabled, NL)

\* The marker kind of a line: "ul" for '- ' and '* ', "ol" for 'N. '.
MarkerKind(line) ==
    IF IsUnordered(Strip(line)) THEN "ul"
    ELSE IF OrderedMark(Strip(line)) # 0 THEN "ol"
    ELSE "none"

\* The maximal runs of contiguous lines of one marker kind from line i on,
\* in order: the kind and the number of lines of each.
RECURSIVE MarkerRunsFrom(_, _)
MarkerRunsFrom(lines, i) ==
    IF i > Len(lines) THEN <<>>
    ELSE IF MarkerKind(lines[i]) = "none" THEN MarkerRunsFrom(lines, i + 1)
    ELSE LET stop == FirstOf({k \in i..Len(lines) :
                                 MarkerKind(lines[k]) # MarkerKind(lines[i])})
             last == IF stop = 0 THEN Len(lines) ELSE stop - 1
         IN <<[kind |-> MarkerKind(lines[i]), count |-> last - i + 1]>>
                \o MarkerRunsFrom(lines, last + 1)

IsItemLine(line) ==
    StartsAt(line, 1, Html.LiOpen)
        /\ StartsAt(line, Len(line) - Len(Html.LiClose) + 1, Html.LiClose)

Malformed == [kind |-> "malformed", count |-> 0]

\* The containers the written lines hold from line i on, in order: the kind
\* and the number of items of each.  A container that is not closed by its
\* own closing tag right after its items, an item outside a container and
\* a stray closing tag are malformed.
RECURSIVE ContainersFrom(_, _)
ContainersFrom(result, i) ==
    IF i > Len(result) THEN <<>>
    ELSE IF result[i] \in {Html.UlOpen, Html.OlOpen}
    THEN LET c == FirstOf({k \in (i + 1)..Len(result) :
                              ~IsItemLine(result[k])})
             close == IF result[i] = Html.UlOpen THEN Html.UlClose ELSE Html.OlClose
         IN IF c = 0 THEN <<Malformed>>
            ELSE IF result[c] # close THEN <<Malformed>>
            ELSE <<[kind |-> IF result[i] = Html.UlOpen THEN "ul" ELSE "ol",
                    count |-> c - i - 1]>>
                     \o ContainersFrom(result, c + 1)
    ELSE IF IsItemLine(result[i]) \/ result[i] \in {Html.UlClose, Html.OlClose}
    THEN <<Malformed>>
    ELSE ContainersFrom(result, i + 1)

\* C15: each maximal run of contiguous lines of one marker kind becomes
\* exactly one container of that kind holding the run's items; when the
\* kind switches between adjacent lines the open container is closed before
\* the other one is opened; no container holds items of both kinds.
C15_ListPartition ==
    pc = "html" =>
        /\ ContainersFrom(html.list_lines, 1) = MarkerRunsFrom(ListInLines, 1)
        /\ html.listed = Join(html.list_lines, <<NL>>)

\* '- a', '1. c', '- a' was converted: three runs, unordered, ordered,
\* unordered, of adjacent lines.
C15_Witness ==
    /\ pc = "html"
    /\ Len(ListInLines) = 3
    /\ MarkerRunsFrom(ListInLines, 1)
           = <<[kind |-> "ul", count |-> 1], [kind |-> "ol", count |-> 1],
               [kind |-> "ul", count |-> 1]>>
    /\ Len(html.list_lines) = 9

-----------------------------------------------------------------------------
(* Claims about blockquotes.                                               *)

\* The lines the blockquote pass reads.
QuoteInLines == Split(html.images, NL)

\* The line without the blanks before it.
LStrip(line) == Slice(line, WsRun(line, 1) + 1, Len(line))

\* A line prefixed with the marker '> ' (blanks may stand before it).
QuotePrefixed(line) == StartsAt(LStrip(line), 1, Html.QuoteMark)

\* The text of a prefixed line, its marker stripped.
QuotedText(line) == Slice(LStrip(line), 3, Len(LStrip(line)))

\* What the claim has the pass write for the lines from the i-th on: one
\* blockquote for each maximal run of prefixed lines, every other line as
\* it is.
RECURSIVE ClaimedQuoted(_, _)
ClaimedQuoted(lines, i) ==
    IF i > Len(lines) THEN <<>>
    ELSE IF ~QuotePrefixed(lines[i])
    THEN <<lines[i]>> \o ClaimedQuoted(lines, i + 1)
    ELSE LET stop == FirstOf({k \in i..Len(lines) : ~QuotePrefixed(lines[k])})
             last == IF stop = 0 THEN Len(lines) ELSE stop - 1
         IN <<Html.BqOpen
                \o Join([k \in 1..(last - i + 1) |->
                            QuotedText(lines[i + k - 1])], Html.BrTag)
                \o Html.BqClose>>
                \o ClaimedQuoted(lines, last + 1)

\* The number of maximal runs of prefixed lines.
QuoteRunCount(lines) ==
    Cardinality({k \in 1..Len(lines) :
                    /\ QuotePrefixed(lines[k])
                    /\ k = 1 \/ ~QuotePrefixed(lines[k - 1])})

\* C16: every maximal run of contiguous lines prefixed with '> ' is written
\* as exactly one blockquote that holds the lines' texts, marker stripped,
\* in order and joined by the line-break tag; a run ends at the first line
\* without the prefix or at the end of the input; k runs give k blockquotes.
C16_BlockquoteGrouping ==
    pc = "html" =>
        /\ html.quoted = Join(ClaimedQuoted(QuoteInLines, 1), <<NL>>)
        /\ Len(html.quotes) = QuoteRunCount(QuoteInLines)
        /\ CountOcc(html.quoted, Html.BqOpen) = QuoteRunCount(QuoteInLines)

-----------------------------------------------------------------------------
(* Claims about headers that carry an annotation.                          *)

\* The lines the header-annotation substitution reads, what it makes of
\* them, and the lines after the plain headers are converted.
AnnotInLines == Split(html.stages.inline, NL)
AnnotOutLines == Split(html.stages.headers, NL)
HeaderOutLines == Split(html.headers, NL)

\* A header line of level 1..6 with one annotation (its anchor may be
\* empty): its level, the index of the annotation's '{' and of its '}'.
AnnotLevel(line) == HashRun(line, 1)
AnnotOpen(line) == FirstOf({k \in 1..Len(line) : StartsAt(line, k, <<"{",
       "#">>)})
AnnotClose(line) == IndexFrom(line, AnnotOpen(line) + 1, "}")

IsAnnotatedHeader(line) ==
    /\ AnnotLevel(line) \in 1..6
    /\ StartsAt(line, AnnotLevel(line) + 1, <<" ">>)
    /\ CountOcc(line, <<"{", "#">>) = 1
    /\ AnnotOpen(line) > AnnotLevel(line) + 2
    /\ AnnotClose(line) >= AnnotOpen(line) + 2

\* The annotation's anchor, the title before the annotation (without the
\* blanks between them) and the text after the annotation.
AnnotAnchor(line) == Slice(line, AnnotOpen(line) + 2, AnnotClose(line) - 1)
AnnotTitle(line) ==
    LET upto == Slice(line, AnnotLevel(line) + 2, AnnotOpen(line) - 1) IN
    Slice(upto, 1, Len(upto) - WsRunBack(upto, Len(upto)))
AnnotRest(line) == Slice(line, AnnotClose(line) + 1, Len(line))

\* '<hL id="a">title</hL>'
BoundHeading(L, a, title) ==
    <<"<", "h">> \o IntToStr(L) \o <<" ","i","d","=","\"">> \o a \o <<"\"",
          ">">> \o title
        \o HClose(L)

\* C17: a header line of level L in 1..6 that ends with an annotation {#a}
\* is rendered as the level-L heading with id a and a text without the
\* annotation; a header line whose annotation is not bound is rendered
\* with the annotation removed and without an id.
C17_AnnotatedHeaders ==
    pc = "html" =>
        \A k \in DOMAIN AnnotInLines :
            LET line == AnnotInLines[k]
                L == AnnotLevel(line)
                bound == BoundHeading(L, AnnotAnchor(line), AnnotTitle(line))
                text == AnnotTitle(line) \o AnnotRest(line)
            IN IsAnnotatedHeader(line) =>
                 /\ Len(AnnotOutLines) = Len(AnnotInLines)
                 /\ Len(HeaderOutLines) = Len(AnnotInLines)
                 /\ AnnotRest(line) = <<>> =>
                        /\ AnnotOutLines[k] = bound
                        /\ HeaderOutLines[k] = bound
                        /\ Contains(html.html, bound)
                        /\ ~Contains(bound, <<"{", "#">>)
                 /\ AnnotRest(line) # <<>> =>
                        /\ AnnotOutLines[k] = line
                        /\ HeaderOutLines[k] =
                               (IF L <= 3 THEN HOpen(L) \o text \o HClose(L)
                                ELSE Hashes(L) \o <<" ">> \o text)
                        /\ Contains(html.html, HeaderOutLines[k])
                        /\ ~Contains(HeaderOutLines[k], <<"{", "#">>)
                        /\ ~Contains(HeaderOutLines[k], <<"i","d","=">>)

-----------------------------------------------------------------------------
(* Claims about generate_html_report.                                      *)

\* The first index at which t occurs in s, or 0.
Pos(s, t) == FirstOf({k \in 1..Len(s) : StartsAt(s, k, t)})

TitleBlock(title) == <<"<","h","1",">">> \o title \o <<"<","/","h","1",">">>
MetaOpen ==
    <<"<","d","i","v"," ","c","l","a","s","s","=","\"","m","e","t","a","d",
          "a","t","a","\"",">">>
ContentOpen ==
    <<"<","d","i","v"," ","c","l","a","s","s","=","\"","c","o","n","t","e",
          "n","t","\"",">">>
NavTag ==
    <<"<","n","a","v"," ","c","l","a","s","s","=","\"","t","o","c","\"",">">>

\* Where the content container's first child starts: after the container's
\* tag, the line break and the template's indent of eight blanks.
FirstChildAt(body) == Pos(body, ContentOpen) + Len(ContentOpen) + 9

\* C18: the report's parts stand in one order: title block, metadata block,
\* content container (its first child the TOC container when a TOC was
\* generated), then the diagrams section, then the figures section; the
\* diagrams section never follows the figures section.
C18_FixedOrder ==
    pc = "report" =>
        LET b == report.body
            content_end == FirstChildAt(b) + Len(report.content_html)
            pd == Pos(b, Html.DiagramsOpen)
            pf == Pos(b, Html.FiguresOpen)
        IN /\ 0 < Pos(b, TitleBlock(report.title))
           /\ Pos(b, TitleBlock(report.title)) < Pos(b, MetaOpen)
           /\ Pos(b, MetaOpen) < Pos(b, ContentOpen)
           /\ StartsAt(b, FirstChildAt(b), report.content_html)
           /\ report.has_nav <=> StartsAt(b, FirstChildAt(b), NavTag)
           /\ report.has_nav <=> Contains(b, NavTag)
           /\ (report.has_nav <=>
                 \E k \in DOMAIN Split(markdown, NL) :
                     \/ IsHeaderLine(Split(markdown, NL)[k], 2)
                     \/ IsHeaderLine(Split(markdown, NL)[k], 3))
           /\ (pd # 0) <=> (report.diagrams # <<>>)
           /\ (pf # 0) <=> (report.images # <<>>)
           /\ pd # 0 => /\ pd >= content_end
                        /\ StartsAt(b, pd, report.diagrams_html)
                        /\ CountOcc(b, Html.DiagramsOpen) = 1
           /\ pf # 0 => /\ pf >= content_end
                        /\ StartsAt(b, pf, report.images_html)
                        /\ CountOcc(b, Html.FiguresOpen) = 1
           /\ (pd # 0 /\ pf # 0) => pd + Len(report.diagrams_html) <= pf

\* A report with a TOC and with a figure embedded in each section.
C18_Witness ==
    /\ pc = "report"
    /\ report.has_nav
    /\ Contains(report.diagrams_html, <<"<","f","i","g","u","r","e",">">>)
    /\ Contains(report.images_html, <<"<","f","i","g","u","r","e",">">>)
    /\ Pos(report.body, Html.DiagramsOpen) < Pos(report.body, Html.FiguresOpen)

\* A file of an embeddable kind: svg, png, jpeg, gif or webp.
EmbeddableKind(path) == MimeOf(PathSuffix(path)) # <<>>

\* The caption line written for the k-th descriptor of a section.
CaptionLine(label, k, caption) ==
    <<"<","f","i","g","c","a","p","t","i","o","n",
          ">">> \o label \o <<" ">> \o IntToStr(k) \o <<":", " ">>
        \o caption \o <<"<","/","f","i","g","c","a","p","t","i","o","n",">">>

\* The claim for one section: exactly the descriptors whose file exists and
\* is of an embeddable kind are embedded, in list order.
SectionAsClaimed(descs, section_html, label) ==
    LET shown(k) == Contains(section_html,
                             CaptionLine(label, k, descs[k].caption))
        at(k) == Pos(section_html, CaptionLine(label, k, descs[k].caption))
    IN /\ \A k \in DOMAIN descs :
              shown(k) <=> (Lookup(PathStr(descs[k].path), exists).st
                                = "file"
                              /\ EmbeddableKind(descs[k].path))
       /\ \A k, j \in DOMAIN descs :
              (k < j /\ shown(k) /\ shown(j)) => at(k) < at(j)
       /\ CountOcc(section_html, <<"<","f","i","g","u","r","e",">">>)
              = Cardinality({k \in DOMAIN descs : shown(k)})

\* C19: every figure or diagram descriptor whose path names an existing
\* file of an embeddable kind (svg, png, jpeg, gif, webp) is embedded in
\* its section, in list order; a descriptor whose file is absent is
\* skipped, and the other descriptors are not affected.
C19_DescriptorsEmbedded ==
    pc = "report" =>
        /\ SectionAsClaimed(report.images, report.images_html, Html.FigureWord)
        /\ SectionAsClaimed(report.diagrams, report.diagrams_html,
                            Html.DiagramWord)

-----------------------------------------------------------------------------
(* The end-to-end example.                                                 *)

\* C20: with the TOC enabled the example gives, in this order, a TOC
\* container with a link to the anchor intro, a level-2 heading with the
\* id intro, a paragraph that holds 'world' in bold, and one table with
\* the header cells A, B and exactly one body row 1, 2.
C20_EndToEndExample ==
    (pc = "converted" /\ markdown = Example /\ page.include_toc) =>
        LET h == page.html
            nav_end == Pos(h, <<"<","/","n","a","v",">">>)
            heading == Pos(h, <<"<","h","2"," ","i","d","=","\"","i","n","t",
                  "r","o","\"",">","I","n","t","r","o","<","/","h","2",">">>)
            para == Pos(h, <<"<","p",">","H","e","l","l","o"," ","<","s","t",
                  "r","o","n","g",">","w","o","r","l","d","<","/","s","t",
                        "r","o","n","g",">",".","<","/","p",">">>)
            table == Pos(h, Html.TableOpen)
            table_end == Pos(h, Html.TableClose)
            table_out == Slice(h, table, table_end + Len(Html.TableClose) - 1)
        IN /\ StartsAt(h, 1, NavTag)
           /\ Pos(h, <<"<","a"," ","h","r","e","f","=","\"","#","i","n","t",
                 "r","o","\"",">","I","n","t","r","o","<","/","a",
                       ">">>) \in 1..nav_end
           /\ CountOcc(h, NavTag) = 1
           /\ 0 < nav_end /\ nav_end < heading
           /\ heading < para
           /\ para < table
           /\ CountOcc(h, Html.TableOpen) = 1
           /\ HeaderCellsOf(table_out) = << <<"A">>, <<"B">> >>
           /\ BodyRowsOf(table_out) = << << <<"1">>, <<"2">> >> >>

\* The example was converted with the TOC enabled.
C20_Witness ==
    /\ pc = "converted"
    /\ markdown = Example
    /\ page.include_toc
    /\ page.has_nav
    /\ Len(page.content.tables) = 1

-----------------------------------------------------------------------------
(* Conversions do not interfere.                                           *)

\* What generate_toc has computed in frame f after its first i - 1 lines,
\* were the call the only one.
AloneAt(f) == TocLoop(TocStart, SubSeq(Split(f.doc, NL), 1, f.i - 1), 1)

\* C21: for two documents converted in any interleaving of the steps of
\* their calls, at every step the anchors, the header counts and the lines a
\* call has written equal those of the same call running alone, what
\* generate_toc returns and what markdown_to_html returns equal what they
\* return for the document alone, and two calls on the same document return
\* the same text.
C21_NoInterference ==
    calls # None =>
        /\ \A c \in DOMAIN calls :
              LET f == calls[c] IN
              /\ f.at # "idle" => f.st = AloneAt(f)
              /\ f.at \in {"toc_returned", "toc_rendered", "returned"} =>
                    /\ f.toc_md = GenerateToc(f.doc).toc_md
                    /\ f.markdown = GenerateToc(f.doc).text
              /\ f.at = "returned" =>
                    f.html = MarkdownToHtml(f.doc, base_path, exists,
                                            TRUE).html
        /\ (/\ calls[1].at = "returned"
            /\ calls[2].at = "returned"
            /\ calls[1].doc = calls[2].doc) => calls[1].html = calls[2].html

\* Both calls are inside the loop of generate_toc on the same document of
\* two equal headers, each after its first line, each with its own count.
C21_Witness ==
    /\ calls # None
    /\ \A c \in DOMAIN calls :
          /\ calls[c].doc = <<"#","#"," ","a","\n","#","#"," ","a">>
          /\ calls[c].at = "generate_toc"
          /\ calls[c].i = 2
          /\ DOMAIN calls[c].st.header_counts = {<<"a">>}

-----------------------------------------------------------------------------
(* The links of the TOC container and the headings of the body.            *)

\* The elements of a set of indices in ascending order.
RECURSIVE InOrder(_)
InOrder(S) == IF S = {} THEN <<>> ELSE <<FirstOf(S)>> \o InOrder(S \ {FirstOf(S)})

\* The text from index k up to the next double quote.
QuotedFrom(s, k) == Slice(s, k, IndexFrom(s, k, "\"") - 1)

\* The targets of the links '<a href="#...">' of a text, in order.
NavTargets(s) ==
    LET at == InOrder({k \in 1..Len(s) : StartsAt(s, k, <<"<","a"," ","h",
          "r","e","f","=","\"","#">>)})
    IN  [n \in 1..Len(at) |-> QuotedFrom(s, at[n] + 10)]

\* The ids of the heading tags '<h2 id="...">' and '<h3 id="...">' of a
\* text, in order.
HeadingIds(s) ==
    LET at == InOrder({k \in 1..Len(s) :
                          \/ StartsAt(s, k, <<"<","h","2"," ","i","d","=",
                                "\"">>)
                          \/ StartsAt(s, k, <<"<","h","3"," ","i","d","=",
                                "\"">>)})
    IN  [n \in 1..Len(at) |-> QuotedFrom(s, at[n] + 8)]

\* C23: when a call of markdown_to_html with the TOC enabled has returned a
\* TOC container, every level-2 or level-3 header of the document is a
\* heading tag with an id that is not empty, the i-th link of the container
\* points to the i-th of these headings, and no two of them share an id.
C23_TocLinkIntegrity ==
    calls # None =>
        \A c \in DOMAIN calls :
            (calls[c].at = "returned" /\ calls[c].toc_html # <<>>) =>
                LET links == NavTargets(calls[c].toc_html)
                    ids   == HeadingIds(MarkdownToHtmlInternal(
                                            calls[c].markdown, base_path,
                                            exists).html)
                IN  /\ Len(links) = Len(calls[c].st.heads)
                    /\ Len(ids) = Len(calls[c].st.heads)
                    /\ \A n \in 1..Len(ids) : ids[n] # <<>>
                    /\ links = ids
                    /\ \A m, n \in 1..Len(ids) : ids[m] = ids[n] => m = n

-----------------------------------------------------------------------------
(* List items with inline markup.                                          *)

\* No line of the document is a quote line, a pipe-framed line or holds an
\* image reference or a column marker.
OnlyPlainAndListLines ==
    /\ FindImages(markdown) = <<>>
    /\ ~Contains(markdown, <<"<","!","-","-">>)
    /\ \A k \in 1..Len(Split(markdown, NL)) :
          /\ ~QuotePrefixed(Split(markdown, NL)[k])
          /\ ~PipeFramed(Split(markdown, NL)[k])

\* C22: in a document without quote, table and image lines, the lines
\* written by the whole pipeline hold, for each maximal run of input lines
\* that begin with a marker of one kind, one container of that kind with one
\* item per line of the run, whatever the content of the lines.
C22_MarkedLinesAreItems ==
    (pc = "html" /\ OnlyPlainAndListLines) =>
        ContainersFrom(html.list_lines, 1)
            = MarkerRunsFrom(Split(markdown, NL), 1)

-----------------------------------------------------------------------------
(* The removal of leftover annotations (line 185).                         *)

\* The text before line 185 with the annotations taken out of the lines that
\* begin with '#' only.
StrippedInHeadersOnly ==
    LET lines == Split(html.stages.headers, NL) IN
    Join([k \in 1..Len(lines) |->
            IF HashRun(lines[k], 1) > 0 THEN StripAnchors(lines[k])
            ELSE lines[k]], <<NL>>)

\* C25: line 185 changes header lines only: every other line, with its
\* annotations and the blanks and line breaks before them, is the same
\* after it.
C25_StripHeadersOnly ==
    pc = "html" => html.stages.stripped = StrippedInHeadersOnly

-----------------------------------------------------------------------------
(* The list pass as a state machine.                                       *)

\* What the pass wrote at each position of result: a copied input line, an
\* item, or one of the four tags.
EmittedKinds(f) ==
    [k \in 1..Len(f.st.result) |->
        IF k \in f.copied THEN "line"
        ELSE IF k \in f.items THEN "li"
        ELSE IF f.st.result[k] = Html.UlOpen THEN "<ul>"
        ELSE IF f.st.result[k] = Html.UlClose THEN "</ul>"
        ELSE IF f.st.result[k] = Html.OlOpen THEN "<ol>"
        ELSE IF f.st.result[k] = Html.OlClose THEN "</ol>"
        ELSE "other"]

\* The container open after the kinds from position k on, read with the
\* container open before them; "bad" when an opening comes inside a
\* container, a closing does not close the open container, an item lies
\* outside a container or a copied line inside one.
RECURSIVE OpenAfter(_, _, _)
OpenAfter(kinds, k, open) ==
    IF k > Len(kinds) THEN open
    ELSE IF kinds[k] = "<ul>" /\ open = "none"
    THEN OpenAfter(kinds, k + 1, "ul")
    ELSE IF kinds[k] = "<ol>" /\ open = "none"
    THEN OpenAfter(kinds, k + 1, "ol")
    ELSE IF kinds[k] = "</ul>" /\ open = "ul"
    THEN OpenAfter(kinds, k + 1, "none")
    ELSE IF kinds[k] = "</ol>" /\ open = "ol"
    THEN OpenAfter(kinds, k + 1, "none")
    ELSE IF kinds[k] = "li" /\ open \in {"ul", "ol"}
    THEN OpenAfter(kinds, k + 1, open)
    ELSE IF kinds[k] = "line" /\ open = "none"
    THEN OpenAfter(kinds, k + 1, "none")
    ELSE "bad"

\* C24: after every line of the list pass at most one of in_ul and in_ol is
\* true and the tags written so far are balanced and not nested: an opening
\* comes outside any container, a closing closes the open container, every
\* item lies inside a container and every copied line outside; while the
\* loop runs the flags tell which container is open, and after the last
\* line no container is open and the text is the one the pipeline computes.
C24_ListStateMachine ==
    pc = "list" =>
        /\ ~(list_pass.st.in_ul /\ list_pass.st.in_ol)
        /\ list_pass.items \cap list_pass.copied = {}
        /\ OpenAfter(EmittedKinds(list_pass), 1, "none") # "bad"
        /\ list_pass.at = "loop" =>
              /\ list_pass.st.in_ul
                    <=> OpenAfter(EmittedKinds(list_pass), 1, "none") = "ul"
              /\ list_pass.st.in_ol
                    <=> OpenAfter(EmittedKinds(list_pass), 1, "none") = "ol"
        /\ list_pass.at = "done" =>
              /\ OpenAfter(EmittedKinds(list_pass), 1, "none") = "none"
              /\ list_pass.html
                    = Lists(Join(list_pass.lines, <<NL>>)).text

\* An unordered item, an ordered item and a line that is itself a list tag
\* have been read: two containers were opened and closed, the second at the
\* kind switch, and the tag line was copied outside them.
C24_Witness ==
    /\ pc = "list"
    /\ list_pass.at = "done"
    /\ list_pass.lines = << <<"-"," ","a">>, <<"1","."," ","c">>, <<"<","u",
          "l",">">> >>
    /\ EmittedKinds(list_pass)
          = << "<ul>", "li", "</ul>", "<ol>", "li", "</ol>", "line" >>

====
